---- MODULE Spec2Model ----
(***************************************************************************)
(* A model of the MCP data server (khushilohann/mcp_ai):                   *)
(*   - the JSON-RPC engine MCPServer (server/app/mcp_server.py),           *)
(*   - the line transport run_stdio_server and the socket transport        *)
(*     MCPWebSocketServer.handle_client,                                   *)
(*   - the REST client APIConnector (server/app/services/api_connector.py).*)
(* Python values are abstracted by the cases the code distinguishes; every *)
(* atomic value is a string so that values of different kinds compare.     *)
(***************************************************************************)
EXTENDS Naturals, Integers, Sequences, FiniteSets, TLC

(***************************************************************************)
(* Values                                                                  *)
(***************************************************************************)

\* Python's None / a JSON null / the default of dict.get for an absent key.
NoneV == "None"

\* The ids a request envelope may carry.
Ids == {"id1", "id2"}

\* JSONRPCErrorCode
PARSE_ERROR == -32700
INVALID_REQUEST == -32600
METHOD_NOT_FOUND == -32601
INVALID_PARAMS == -32602
INTERNAL_ERROR == -32603

VARIABLES
    tools,        \* MCPServer.tools: the names of the registered tools
    connectors,   \* query_api._CONNECTORS: the entries of the dict
    handed,       \* the clients get_connector has returned, with the pair asked for
    cdnf,         \* the DNF handed to _build_sql_where_from_dnf
    compiled,     \* whether it was compiled
    where_sql,    \* the WHERE text returned, in pieces
    where_params, \* the parameters returned
    upstream_users,\* the body the upstream answers GET /users with
    users_cache,  \* the entry of /users in the cache of the client: the list object stored
    users_ret,    \* what the last call returned
    searches      \* the calls made

\* The keys of MCPServer.tools after _register_tools.
RegisteredTools ==
    {"list_sources", "query_data", "query_api", "transform_data",
     "integrate_data", "export_data", "analyze_schema", "suggest_queries",
     "check_data_quality", "list_files", "parse_file", "search_users"}

\* The methods _handle_method routes before it tries the tool registry.
ProtocolMethods ==
    {"initialize", "tools/list", "tools/call", "resources/list",
     "resources/read", "prompts/list", "prompts/get"}

NotificationMethods == {"notifications/initialized", "notifications/progress"}

UnknownMethod == "no_such_method"
UnknownTool == "no_such_tool"

\* What a handler is given as its argument mapping:
\*   "empty"      {} ;
\*   "blank"      the required keys present with empty values (question "",
\*                query "", one source, rows [], file_path "", directory "");
\*   "valid"      well-formed arguments, the backend answers;
\*   "valid_fail" well-formed arguments, the backend fails (store error,
\*                upstream down after the retries, missing file or directory);
\*   "null"       None (an explicit JSON null);
\*   "nonmap"     a non-empty JSON value that is no object (a list).
ArgMaps == {"empty", "blank", "valid", "valid_fail"}
ArgVals == ArgMaps \cup {"null", "nonmap"}

\* The params member of an envelope, by the keys the engine reads:
\*   shape      "none" (absent or null), "nonmap" (a non-empty list), "map";
\*   name       params.get("name");
\*   arguments  params.get("arguments") or "absent";
\*   uri        params.get("uri") or "absent";
\*   bind       the case of ArgMaps the mapping is when it is itself handed
\*              to a tool handler (the tool-name shorthand).
Params(shape, name, arguments, uri, bind) ==
    [shape |-> shape, name |-> name, arguments |-> arguments, uri |-> uri,
     bind |-> bind]

NoParams == Params("none", NoneV, "absent", "absent", "empty")
ListParams == Params("nonmap", NoneV, "absent", "absent", "nonmap")
EmptyParams == Params("map", NoneV, "absent", "absent", "empty")

\* request.params or {}
ParamsOrEmpty(p) == IF p.shape = "none" THEN EmptyParams ELSE p

\* A message text, by what json.loads makes of it:
\*   "blank"    empty or white space only;
\*   "garbage"  not JSON;
\*   "nonobj"   JSON that is no object (a list, a number);
\*   "obj"      a JSON object with members id, method, params.
Text(kind, id, method, params) ==
    [kind |-> kind, id |-> id, method |-> method, params |-> params]

BlankText == Text("blank", NoneV, "", NoParams)
GarbageText == Text("garbage", NoneV, "", NoParams)
NonObjectText == Text("nonobj", NoneV, "", NoParams)

ToolsCallParams ==
    {NoParams, ListParams} \cup
    {Params("map", n, a, "absent", "empty") :
        n \in RegisteredTools \cup {UnknownTool, NoneV},
        a \in ArgVals \cup {"absent"}}

ShorthandParams ==
    {NoParams, ListParams} \cup
    {Params("map", NoneV, "absent", "absent", b) : b \in ArgMaps}

ResourceUris == {"sources://all", "tables://all", "other://x", "absent"}

ResourcesReadParams ==
    {NoParams} \cup
    {Params("map", NoneV, "absent", u, "empty") : u \in ResourceUris}

PromptsGetParams ==
    {NoParams} \cup
    {Params("map", n, "absent", "absent", "empty") :
        n \in {"query_help", "other_prompt"}}

ParamsOf(method) ==
    CASE method = "tools/call" -> ToolsCallParams
      [] method = "resources/read" -> ResourcesReadParams
      [] method = "prompts/get" -> PromptsGetParams
      [] method \in RegisteredTools -> ShorthandParams
      [] OTHER -> {NoParams}

Methods ==
    ProtocolMethods \cup NotificationMethods \cup RegisteredTools
        \cup {UnknownMethod}

\* Every JSON object envelope of the model.
Envelopes ==
    UNION {{Text("obj", i, m, p) : i \in Ids \cup {NoneV}, p \in ParamsOf(m)} :
              m \in Methods}

\* Every text the engine may be handed.
Texts == {BlankText, GarbageText, NonObjectText} \cup Envelopes

(***************************************************************************)
(* json.loads and MCPServer._parse_request                                 *)
(***************************************************************************)

\* json.loads(data): raises JSONDecodeError unless the text is JSON.
JsonLoads(data) ==
    IF data.kind \in {"blank", "garbage"}
    THEN [raised |-> TRUE, exc |-> "JSONDecodeError", isdict |-> FALSE]
    ELSE [raised |-> FALSE, exc |-> "", isdict |-> data.kind = "obj"]

\* A JSONRPCRequest, or the outcome of _parse_request that is none.
Request(id, method, params) ==
    [id |-> id, method |-> method, params |-> params]

\* The decode error swallowed: unparseable text parses to None.
_parse_request_swallow(data) ==
    LET obj == JsonLoads(data) IN
    IF obj.raised \/ ~obj.isdict
    THEN [raised |-> FALSE, exc |-> "", isnone |-> TRUE,
          request |-> Request(NoneV, "", NoParams)]
    ELSE [raised |-> FALSE, exc |-> "", isnone |-> FALSE,
          request |-> Request(data.id, data.method, data.params)]

\* MCPServer._parse_request: re-raises the decode error, None for JSON that
\* is no dict, otherwise the request with obj.get("id") and friends.
_parse_request(data) ==
    LET obj == JsonLoads(data) IN
    IF obj.raised
    THEN [raised |-> TRUE, exc |-> obj.exc, isnone |-> FALSE,
          request |-> Request(NoneV, "", NoParams)]
    ELSE IF ~obj.isdict
    THEN [raised |-> FALSE, exc |-> "", isnone |-> TRUE,
          request |-> Request(NoneV, "", NoParams)]
    ELSE [raised |-> FALSE, exc |-> "", isnone |-> FALSE,
          request |-> Request(data.id, data.method, data.params)]

(***************************************************************************)
(* Tool handlers (MCPServer._handle_<tool>)                                *)
(***************************************************************************)

\* What a handler returns: the dict's "success" member ("true", "false" or
\* "absent") and whether it carries error.message; payload names what else
\* the result lists.
Result(tag, tool, success, errmsg, payload) ==
    [tag |-> tag, tool |-> tool, success |-> success, errmsg |-> errmsg,
     payload |-> payload]

NoResult == Result("none", "", "absent", FALSE, {})

\* A handler's outcome: it raised exc, or it returned result.
Raise(exc) == [raised |-> TRUE, exc |-> exc, result |-> NoResult]
Return(result) == [raised |-> FALSE, exc |-> "", result |-> result]
Success(tool) == Return(Result("tool", tool, "true", FALSE, {}))
Failure(tool) == Return(Result("tool", tool, "false", TRUE, {}))
Plain(tool) == Return(Result("tool", tool, "absent", FALSE, {}))

\* args.get(...) or a pydantic model built from a value that is no mapping.
NotAMapping(args) == args \in {"null", "nonmap"}

\* list_sources() ignores its arguments and returns {"sources": [...]}.
_handle_list_sources(args) == Plain("list_sources")

\* QueryPayload needs a question; query_data raises HTTPException for
\* a blank question and returns success False when the oracle fails.
_handle_query_data(args) ==
    CASE NotAMapping(args) -> Raise("TypeError: argument after ** must be a mapping")
      [] args = "empty" -> Raise("ValidationError: question field required")
      [] args = "blank" -> Raise("400: question is required")
      [] args = "valid_fail" -> Failure("query_data")
      [] OTHER -> Success("query_data")

\* Every member of QueryAPIRequest has a default; query_api catches every
\* exception of the call (an unsupported method included).
_handle_query_api(args) ==
    CASE NotAMapping(args) -> Raise("TypeError: argument after ** must be a mapping")
      [] args = "empty" -> Success("query_api")
      [] args = "blank" -> Failure("query_api")
      [] args = "valid_fail" -> Failure("query_api")
      [] OTHER -> Success("query_api")

_handle_transform_data(args) ==
    CASE args = "null" -> Raise("TypeError: argument of type 'NoneType' is not iterable")
      [] args = "nonmap" -> Raise("AttributeError: 'list' object has no attribute 'get'")
      [] args \in {"empty", "blank"} -> Raise("400: Either sql or rows must be provided")
      [] args = "valid_fail" -> Raise("400: Only SELECT queries are allowed in this demo.")
      [] OTHER -> Success("transform_data")

_handle_integrate_data(args) ==
    CASE NotAMapping(args) -> Raise("TypeError: argument after ** must be a mapping")
      [] args = "empty" -> Raise("ValidationError: sources field required")
      [] args = "blank" -> Raise("400: At least two sources are required for integration.")
      [] args = "valid_fail" -> Raise("KeyError: deduplicate_on")
      [] OTHER -> Success("integrate_data")

_handle_export_data(args) ==
    CASE args = "null" -> Raise("TypeError: argument of type 'NoneType' is not iterable")
      [] args = "nonmap" -> Raise("AttributeError: 'list' object has no attribute 'get'")
      [] args \in {"empty", "blank"} -> Raise("400: Either sql or rows must be provided")
      [] args = "valid_fail" -> Raise("400: Only SELECT queries are allowed in this demo.")
      [] OTHER -> Success("export_data")

\* analyze_schema and suggest_queries catch every exception of their body.
_handle_analyze_schema(args) ==
    CASE NotAMapping(args) -> Raise("AttributeError: object has no attribute 'get'")
      [] args = "valid_fail" -> Failure("analyze_schema")
      [] OTHER -> Success("analyze_schema")

_handle_suggest_queries(args) ==
    CASE NotAMapping(args) -> Raise("AttributeError: object has no attribute 'get'")
      [] args = "valid_fail" -> Failure("suggest_queries")
      [] OTHER -> Success("suggest_queries")

\* DataQualityRequest is built outside check_data_quality's try.
_handle_check_data_quality(args) ==
    CASE NotAMapping(args) -> Raise("TypeError: argument after ** must be a mapping")
      [] args \in {"empty", "blank", "valid_fail"} -> Failure("check_data_quality")
      [] OTHER -> Success("check_data_quality")

\* list_files returns {"files": [...]} and raises for a missing directory.
_handle_list_files(args) ==
    CASE NotAMapping(args) -> Raise("AttributeError: object has no attribute 'get'")
      [] args \in {"blank", "valid_fail"} -> Raise("400: Directory does not exist")
      [] OTHER -> Plain("list_files")

_handle_parse_file(args) ==
    CASE NotAMapping(args) -> Raise("AttributeError: object has no attribute 'get'")
      [] args \in {"empty", "blank"} -> Raise("Either file_path or file_content is required")
      [] args = "valid_fail" -> Raise("FileNotFoundError")
      [] OTHER -> Plain("parse_file")

_handle_search_users(args) ==
    CASE NotAMapping(args) -> Raise("AttributeError: object has no attribute 'get'")
      [] args \in {"empty", "blank"} -> Raise("query is required")
      [] args = "valid_fail" -> Raise("OperationalError: no such table: users")
      [] OTHER -> Success("search_users")

\* self.tools[tool_name](arguments)
ToolHandler(tool_name, arguments) ==
    CASE tool_name = "list_sources" -> _handle_list_sources(arguments)
      [] tool_name = "query_data" -> _handle_query_data(arguments)
      [] tool_name = "query_api" -> _handle_query_api(arguments)
      [] tool_name = "transform_data" -> _handle_transform_data(arguments)
      [] tool_name = "integrate_data" -> _handle_integrate_data(arguments)
      [] tool_name = "export_data" -> _handle_export_data(arguments)
      [] tool_name = "analyze_schema" -> _handle_analyze_schema(arguments)
      [] tool_name = "suggest_queries" -> _handle_suggest_queries(arguments)
      [] tool_name = "check_data_quality" -> _handle_check_data_quality(arguments)
      [] tool_name = "list_files" -> _handle_list_files(arguments)
      [] tool_name = "parse_file" -> _handle_parse_file(arguments)
      [] tool_name = "search_users" -> _handle_search_users(arguments)

(***************************************************************************)
(* The RPC engine (MCPServer)                                              *)
(***************************************************************************)

\* The error member of a response: code, message (its parts, in order) and
\* data (<<"traceback", e>> for traceback.format_exc(), <<"str", e>> for
\* str(e), <<>> when absent).
Error(code, message, data) ==
    [code |-> code, message |-> message, data |-> data]

NoError == Error(0, <<>>, <<>>)

\* JSONRPCResponse(id, result, error)
Response(id, result, error) == [id |-> id, result |-> result, error |-> error]

ErrorResponse(id, code, message, data) ==
    Response(id, NoResult, Error(code, message, data))

\* What an engine method gives back: it raised exc, or it returned response;
\* invoked are the tool handlers it called and handler_exc the exception a
\* tool handler raised ("" when none did).
Returned(response, invoked, handler_exc) ==
    [raised |-> FALSE, exc |-> "", response |-> response, invoked |-> invoked,
     handler_exc |-> handler_exc]

Raised(exc, invoked, handler_exc) ==
    [raised |-> TRUE, exc |-> exc, response |-> Response(NoneV, NoResult, NoError),
     invoked |-> invoked, handler_exc |-> handler_exc]

\* MCPServer._call_tool: the handler's result in a response whose id is
\* None; a handler's exception is logged and raised again.
_call_tool(tool_name, arguments) ==
    LET out == ToolHandler(tool_name, arguments) IN
    IF out.raised
    THEN Raised(out.exc, {tool_name}, out.exc)
    ELSE Returned(Response(NoneV, out.result, NoError), {tool_name}, "")

\* The response built without the id of the request.
MethodNotFoundResponseNoId(id, message) ==
    ErrorResponse(NoneV, METHOD_NOT_FOUND, message, <<>>)

\* JSONRPCResponse(id=request.id, error={code: METHOD_NOT_FOUND, message})
MethodNotFoundResponse(id, message) ==
    ErrorResponse(id, METHOD_NOT_FOUND, message, <<>>)

\* MCPServer._handle_tools_call
_handle_tools_call(request) ==
    LET params == ParamsOrEmpty(request.params)
        tool_name == params.name
        arguments == IF params.arguments = "absent" THEN "empty"
                     ELSE params.arguments
        called == _call_tool(tool_name, arguments)
    IN  IF params.shape = "nonmap"
        THEN Raised("AttributeError: 'list' object has no attribute 'get'", {}, "")
        ELSE IF tool_name \notin tools
        THEN Returned(MethodNotFoundResponse(request.id,
                                             <<"Tool not found: ", tool_name>>),
                      {}, "")
        ELSE IF called.raised
        THEN Returned(ErrorResponse(request.id, INTERNAL_ERROR,
                                    <<"Tool execution failed: ", called.exc>>,
                                    <<"traceback", called.exc>>),
                      called.invoked, called.exc)
        ELSE Returned([called.response EXCEPT !.id = request.id], called.invoked, "")

\* MCPServer._handle_initialize
_handle_initialize(request) ==
    Returned(Response(request.id,
                      Result("initialize", "", "absent", FALSE,
                             {"tools", "resources", "prompts"}),
                      NoError), {}, "")

\* The descriptors without the one of search_users.
ToolDefinitionsButOne ==
    {"list_sources", "query_data", "query_api", "transform_data",
     "integrate_data", "export_data", "analyze_schema", "suggest_queries",
     "check_data_quality", "list_files", "parse_file"}

\* MCPServer._get_tool_definition: the names that have a descriptor with an
\* inputSchema.
ToolDefinitions ==
    {"list_sources", "query_data", "query_api", "transform_data",
     "integrate_data", "export_data", "analyze_schema", "suggest_queries",
     "check_data_quality", "list_files", "parse_file", "search_users"}

\* MCPServer._handle_tools_list
_handle_tools_list(request) ==
    Returned(Response(request.id,
                      Result("tools/list", "", "absent", FALSE,
                             tools \cap ToolDefinitions),
                      NoError), {}, "")

\* MCPServer._handle_resources_list
_handle_resources_list(request) ==
    Returned(Response(request.id,
                      Result("resources/list", "", "absent", FALSE,
                             {"sources://all", "tables://all"}),
                      NoError), {}, "")

\* MCPServer._handle_resources_read: by the prefix of params.get("uri", "").
_handle_resources_read(request) ==
    LET params == ParamsOrEmpty(request.params)
        uri == params.uri
    IN  IF uri \in {"sources://all", "tables://all"}
        THEN Returned(Response(request.id,
                               Result("resources/read", "", "absent", FALSE, {uri}),
                               NoError), {}, "")
        ELSE Returned(ErrorResponse(request.id, INVALID_PARAMS,
                                    <<"Unknown resource URI: ",
                                      IF uri = "absent" THEN "" ELSE uri>>,
                                    <<>>), {}, "")

\* MCPServer._handle_prompts_list
_handle_prompts_list(request) ==
    Returned(Response(request.id,
                      Result("prompts/list", "", "absent", FALSE, {"query_help"}),
                      NoError), {}, "")

\* MCPServer._handle_prompts_get
_handle_prompts_get(request) ==
    LET params == ParamsOrEmpty(request.params)
        prompt_name == params.name
    IN  IF prompt_name = "query_help"
        THEN Returned(Response(request.id,
                               Result("prompts/get", "", "absent", FALSE,
                                      {"query_help"}),
                               NoError), {}, "")
        ELSE Returned(ErrorResponse(request.id, INVALID_PARAMS,
                                    <<"Unknown prompt: ", prompt_name>>, <<>>), {}, "")

\* MCPServer._handle_method: the protocol methods, then the tool registry
\* (the shorthand returns what _call_tool returns), then MethodNotFound.
_handle_method(request) ==
    LET method == request.method IN
    CASE method = "initialize" -> _handle_initialize(request)
      [] method = "tools/list" -> _handle_tools_list(request)
      [] method = "tools/call" -> _handle_tools_call(request)
      [] method = "resources/list" -> _handle_resources_list(request)
      [] method = "resources/read" -> _handle_resources_read(request)
      [] method = "prompts/list" -> _handle_prompts_list(request)
      [] method = "prompts/get" -> _handle_prompts_get(request)
      [] OTHER ->
            IF method \in tools
            THEN _call_tool(method, ParamsOrEmpty(request.params).bind)
            ELSE Returned(MethodNotFoundResponse(request.id,
                                                 <<"Method not found: ", method>>),
                          {}, "")

\* MCPServer._handle_notification: logs two methods, answers none.
_handle_notification(request) ==
    IF request.method = "notifications/initialized" THEN "logged: Client initialized"
    ELSE IF request.method = "notifications/progress" THEN "logged: Progress notification"
    ELSE "ignored"

\* MCPServer._serialize_response: the wire object holds "error" when the
\* response has one and "result" otherwise, never both.
_serialize_response(response) ==
    [jsonrpc |-> "2.0",
     id |-> response.id,
     member |-> IF response.error # NoError THEN "error" ELSE "result",
     error |-> response.error,
     result |-> IF response.error # NoError THEN NoResult ELSE response.result]

NoWire == _serialize_response(Response(NoneV, NoResult, NoError))

\* What handle_request gives its caller: None (isnone) or the serialized
\* response; dispatched is the engine routine the envelope was handed to
\* ("" when none was), log what that routine logged, invoked the tool
\* handlers that ran and handler_exc the exception one of them raised.
Handled(isnone, out, dispatched, log, invoked, handler_exc) ==
    [isnone |-> isnone, out |-> out, dispatched |-> dispatched, log |-> log,
     invoked |-> invoked, handler_exc |-> handler_exc]

\* A notifying envelope answers every request, none being one.
IsNotificationNever(request) == FALSE

\* handle_request: "if request.id is None" marks a notification.
IsNotification(request) == request.id = NoneV

\* MCPServer.handle_request
handle_request(request_data) ==
    LET parsed == _parse_request(request_data)
        request == parsed.request
        answer == _handle_method(request)
    IN  IF parsed.raised
        THEN Handled(FALSE,
                     _serialize_response(
                         ErrorResponse(NoneV, PARSE_ERROR, <<"Parse error">>,
                                       <<"str", parsed.exc>>)),
                     "", "JSON parse error", {}, "")
        ELSE IF parsed.isnone
        THEN Handled(TRUE, NoWire, "", "", {}, "")
        ELSE IF IsNotification(request)
        THEN Handled(TRUE, NoWire, "_handle_notification",
                     _handle_notification(request), {}, "")
        ELSE IF answer.raised
        THEN Handled(FALSE,
                     _serialize_response(
                         ErrorResponse(NoneV, INTERNAL_ERROR, <<"Internal error">>,
                                       <<"str", answer.exc>>)),
                     "_handle_method", "Unexpected error handling request",
                     answer.invoked, answer.handler_exc)
        ELSE Handled(FALSE, _serialize_response(answer.response),
                     "_handle_method", "", answer.invoked, answer.handler_exc)

NotHandled == Handled(TRUE, NoWire, "", "", {}, "")

(***************************************************************************)
(* The REST client (APIConnector): values                                  *)
(***************************************************************************)

\* The callers that use one client concurrently: the handlers of two
\* connections of the socket transport, each in a tools/call of query_api.
Callers == {"t1", "t2"}

Paths == {"/items"}

\* The calls started in one behaviour, the last instant of the clock, the
\* client's cache_ttl in ticks of it, and the last body of the upstream.
MaxCalls == 3
MaxTime == 3
Ttl == 2
MaxVersion == 1

\* for attempt in range(3)
MaxAttempts == 3

\* The params of a GET: None, or a dict given by its keys in insertion order
\* (1 and 2 stand for two parameter names).
NoQuery == [isnone |-> TRUE, items |-> <<>>]
Query(items) == [isnone |-> FALSE, items |-> items]
ParamChoices == {NoQuery, Query(<<>>), Query(<<1, 2>>), Query(<<2, 1>>)}

RECURSIVE Insert(_, _)
Insert(x, s) ==
    IF s = <<>> THEN <<x>>
    ELSE IF x <= Head(s) THEN <<x>> \o s
    ELSE <<Head(s)>> \o Insert(x, Tail(s))

\* sorted(params.items())
RECURSIVE Sorted(_)
Sorted(s) == IF s = <<>> THEN <<>> ELSE Insert(Head(s), Sorted(Tail(s)))

\* APIConnector._cache_key: the path alone when params is None or empty,
\* otherwise the path with the sorted items.
_cache_key(path, params) ==
    IF params.isnone \/ params.items = <<>>
    THEN <<path, <<>>>>
    ELSE <<path, Sorted(params.items)>>

CacheKeys == {_cache_key(p, q) : p \in Paths, q \in ParamChoices}

\* A request as a caller means it: the path and the parameters as a map.
RequestOf(path, params) ==
    <<path, {params.items[i] : i \in DOMAIN params.items}>>

Requests == {RequestOf(p, q) : p \in Paths, q \in ParamChoices}

NoEntry == [present |-> FALSE, body |-> 0, expires |-> 0]

\* An entry never expires.
InCacheForever(c, key, t) == c[key].present

\* "key in self.cache" (TTLCache.__contains__): present and not yet expired.
InCache(c, key, t) == c[key].present /\ t < c[key].expires

\* self.cache[key]
CacheGet(c, key) == c[key].body

\* The fetched body is not stored.
CacheStoreNothing(c, key, body, t) == c

\* "self.cache[key] = result" (TTLCache.__setitem__): the entry lives ttl
\* from now; the entries that have expired are dropped.
CacheStore(c, key, body, t) ==
    [k \in CacheKeys |->
        IF k = key THEN [present |-> TRUE, body |-> body, expires |-> t + Ttl]
        ELSE IF c[k].present /\ t >= c[k].expires THEN NoEntry
        ELSE c[k]]

\* The cache is left as it is.
CacheClearNothing(c) == c

\* connector.cache.clear()
CacheClear(c) == [k \in CacheKeys |-> NoEntry]

\* A call of a caller: GET through APIConnector.get, or POST, PUT, DELETE
\* through query_api with its invalidate_cache flag; body is the body of
\* the response once the upstream has served it, waited the sleeps of its
\* _request so far, in milliseconds, token the oauth2_token given to this
\* call (None: the client's own credential).
Call(op, path, params, use_cache, invalidate, issued, prev) ==
    [op |-> op, path |-> path, params |-> params, use_cache |-> use_cache,
     invalidate |-> invalidate, issued |-> issued, prev |-> prev, body |-> 0,
     waited |-> <<>>, token |-> NoneV]

NoFetch ==
    [valid |-> FALSE, body |-> 0, at |-> 0, cleared |-> FALSE, token |-> NoneV]
NoCall == Call("none", "/items", NoQuery, FALSE, FALSE, 0, NoFetch)

\* What a call returned: status "ok" with the body or "error" (RuntimeError
\* after the retries); attempts counts the upstream attempts it made and
\* fetched the bodies the upstream returned to it.
Ret(c, status, body, attempts, fetched) ==
    [op |-> c.op, request |-> RequestOf(c.path, c.params),
     use_cache |-> c.use_cache, status |-> status, body |-> body,
     attempts |-> attempts, fetched |-> fetched, issued |-> c.issued,
     prev |-> c.prev, waited |-> c.waited, invalidate |-> c.invalidate,
     token |-> c.token]

NoRet == Ret(NoCall, "none", 0, 0, 0)

(***************************************************************************)
(* The SQL executor (execute_sql): texts                                   *)
(***************************************************************************)

\* Words of SQL texts, as sequences of characters.
W_select == <<"s", "e", "l", "e", "c", "t">>
W_SELECT == <<"S", "E", "L", "E", "C", "T">>
W_selectx == <<"s", "e", "l", "e", "c", "t", "x">>
W_insert == <<"i", "n", "s", "e", "r", "t">>
W_delete == <<"d", "e", "l", "e", "t", "e">>
W_limit == <<"l", "i", "m", "i", "t">>
W_LIMIT == <<"L", "I", "M", "I", "T">>
W_star == <<"*">>
W_from == <<"f", "r", "o", "m">>
W_into == <<"i", "n", "t", "o">>
W_users == <<"u", "s", "e", "r", "s">>
W_where == <<"w", "h", "e", "r", "e">>
W_name == <<"n", "a", "m", "e">>
W_ne == <<"<", ">">>
W_quoted_limit == <<"'", "l", "i", "m", "i", "t", "'">>
W_five == <<"5">>
W_semi == <<";">>

\* The statements of the texts: selects without and with a LIMIT clause, a
\* select that compares a column with the string 'limit', a text whose first
\* word only begins with "select", writes (one with that string in it), a
\* select followed by a write, and nothing.
SqlStatements ==
    { <<W_select, W_star, W_from, W_users>>,
      <<W_SELECT, W_star, W_from, W_users>>,
      <<W_select, W_star, W_from, W_users, W_limit, W_five>>,
      <<W_SELECT, W_star, W_from, W_users, W_LIMIT, W_five>>,
      <<W_select, W_star, W_from, W_users, W_where, W_name, W_ne,
        W_quoted_limit>>,
      <<W_selectx, W_star, W_from, W_users>>,
      <<W_insert, W_into, W_users>>,
      <<W_delete, W_from, W_users>>,
      <<W_delete, W_from, W_users, W_where, W_name, W_ne, W_quoted_limit>>,
      <<W_select, W_star, W_from, W_users, W_semi, W_delete, W_from, W_users>>,
      <<>> }

\* A text: blanks, the words joined by single blanks, and maybe a closing
\* semicolon.
SqlText(lead, words, semi) == [lead |-> lead, words |-> words, semi |-> semi]

SqlTexts ==
    {SqlText(l, w, e) : l \in {<<>>, <<" ">>}, w \in SqlStatements, e \in BOOLEAN}

RECURSIVE JoinWords(_)
JoinWords(words) ==
    IF words = <<>> THEN <<>>
    ELSE IF Len(words) = 1 THEN words[1]
    ELSE words[1] \o <<" ">> \o JoinWords(Tail(words))

\* The characters of a text.
SqlChars(text) ==
    text.lead \o JoinWords(text.words) \o (IF text.semi THEN <<";">> ELSE <<>>)

\* str.lower, on the letters the texts use in upper case.
LowerChar(ch) ==
    CASE ch = "S" -> "s" [] ch = "E" -> "e" [] ch = "L" -> "l"
      [] ch = "C" -> "c" [] ch = "T" -> "t" [] ch = "I" -> "i"
      [] ch = "M" -> "m" [] ch = "F" -> "f" [] ch = "U" -> "u"
      [] OTHER -> ch

Lower(chars) == [i \in DOMAIN chars |-> LowerChar(chars[i])]

\* str.strip
RECURSIVE LStrip(_)
LStrip(chars) ==
    IF chars # <<>> /\ Head(chars) = " " THEN LStrip(Tail(chars)) ELSE chars

RECURSIVE RStrip(_)
RStrip(chars) ==
    IF chars # <<>> /\ chars[Len(chars)] = " "
    THEN RStrip(SubSeq(chars, 1, Len(chars) - 1))
    ELSE chars

Strip(chars) == RStrip(LStrip(chars))

\* str.rstrip(";")
RECURSIVE RStripSemi(_)
RStripSemi(chars) ==
    IF chars # <<>> /\ chars[Len(chars)] = ";"
    THEN RStripSemi(SubSeq(chars, 1, Len(chars) - 1))
    ELSE chars

\* str.startswith
StartsWith(chars, prefix) ==
    /\ Len(chars) >= Len(prefix)
    /\ SubSeq(chars, 1, Len(prefix)) = prefix

\* "sub in chars"
Contains(chars, sub) ==
    \E i \in 1..(Len(chars) - Len(sub) + 1) :
        SubSeq(chars, i, i + Len(sub) - 1) = sub

\* The limit argument: the default of execute_sql and the one of
\* search_sql_users.
DefaultLimit == 1000
UsersLimit == 200
Limits == {DefaultLimit, UsersLimit}

\* The numbers of rows the users table can hold.
StoreSizes == {0, 150, 1500}

\* What a call gives: kind "error" for the structured error (success False),
\* "raised" for an exception, "ok" for success True with that many rows.
SqlOut(kind, error, rows) == [kind |-> kind, error |-> error, rows |-> rows]
NoSqlOut == SqlOut("none", "", 0)

Min(a, b) == IF a <= b THEN a ELSE b

\* The words of a statement hold a LIMIT clause.
HasLimitClause(words) ==
    \E i \in DOMAIN words : Lower(words[i]) = W_limit

\* What SQLite does with one call of db.execute on the statement made of
\* these words, with " LIMIT cap" appended when appended is set: more than
\* one statement is refused, a select gives the rows up to its limit, a
\* write that is valid SQL changes the table, anything else is a syntax
\* error.
SqliteExecute(words, stmt, appended, cap, store) ==
    IF \/ words = <<>>
       \/ \E i \in DOMAIN words : words[i] = W_semi
       \/ (appended /\ stmt # <<>> /\ stmt[Len(stmt)] = ";")
    THEN [out |-> SqlOut("raised", "sqlite3 error", 0), store |-> store]
    ELSE IF Lower(words[1]) = W_select
    THEN [out |-> SqlOut("ok", "",
                    IF appended THEN Min(store, cap)
                    ELSE IF HasLimitClause(words) THEN Min(store, 5)
                    ELSE store),
          store |-> store]
    ELSE IF Lower(words[1]) \in {W_insert, W_delete} /\ ~appended
    THEN [out |-> SqlOut("ok", "", 0),
          store |-> IF Lower(words[1]) = W_insert THEN store + 1 ELSE 0]
    ELSE [out |-> SqlOut("raised", "sqlite3 error", 0), store |-> store]

\* execute_sql(sql, params, limit) on a table of store rows: what it
\* returns or raises, and the table after it.
execute_sql(text, limit, store) ==
    LET sql == SqlChars(text)
        s == Lower(Strip(sql))
        sql_clean == RStripSemi(Strip(sql))
    IN  IF sql = <<>>
        THEN [out |-> SqlOut("error", "Empty SQL", 0), store |-> store]
        ELSE IF ~StartsWith(s, W_select)
        THEN [out |-> SqlOut("error", "Only SELECT queries are allowed", 0),
              store |-> store]
        ELSE SqliteExecute(text.words, sql_clean, ~Contains(s, W_limit), limit,
                           store)

(***************************************************************************)
(* The query parser (parse_query_to_dnf)                                   *)
(***************************************************************************)

\* The longest query, in words.
MaxWords == 3

\* The words of the queries: the connectives, a word of punctuation only,
\* the words of the shortcuts and of the fields, values, and a plain word.
QueryWords ==
    {"and", "or", "!", "last", "month", "id", "7", "eu", "EU", "name",
     "user21", "u@x.io", "signup_date", "2025-01-22", "foo", "a_b"}

\* A query is its words, separated by blanks.
Queries == UNION {[1..n -> QueryWords] : n \in 0..MaxWords}

\* The days on which the parser runs (date.today()).
Todays == <<"2025-01-31", "2025-02-01", "2025-03-01">>

\* _norm and the two re.sub of the parser on one word: lower case, and every
\* character outside a-z 0-9 @ . - _ becomes a blank.
NormWord(w) ==
    CASE w = "EU" -> "eu"
      [] w = "!" -> ""
      [] OTHER -> w

RECURSIVE Normalize(_)
Normalize(words) ==
    IF words = <<>> THEN <<>>
    ELSE IF NormWord(Head(words)) = "" THEN Normalize(Tail(words))
    ELSE <<NormWord(Head(words))>> \o Normalize(Tail(words))

\* re.split of "\s+sep\s+": a word sep splits when blanks surround it, that
\* is when it is neither the first nor the last word, and the blank before
\* it was not taken by the separator just before.
RECURSIVE SplitRec(_, _, _, _, _)
SplitRec(words, sep, i, cur, acc) ==
    IF i > Len(words)
    THEN IF cur = <<>> THEN acc ELSE Append(acc, cur)
    ELSE IF words[i] = sep /\ cur # <<>> /\ i < Len(words)
    THEN SplitRec(words, sep, i + 1, <<>>, Append(acc, cur))
    ELSE SplitRec(words, sep, i + 1, Append(cur, words[i]), acc)

Split(words, sep) == SplitRec(words, sep, 1, <<>>, <<>>)

Cond(field, op, value) == [field |-> field, op |-> op, value |-> value]

\* _parse_last_month_range(): the first day of the month before today's and
\* the first day of today's month.
_parse_last_month_range(today) ==
    CASE today = "2025-01-31" -> <<"2024-12-01", "2025-01-01">>
      [] today = "2025-02-01" -> <<"2025-01-01", "2025-02-01">>
      [] today = "2025-03-01" -> <<"2025-02-01", "2025-03-01">>

\* re.search gives the leftmost match: the least of the places where the
\* pattern matches, 0 when it matches nowhere.
FirstIndex(places) ==
    IF places = {} THEN 0
    ELSE CHOOSE i \in places : \A j \in places : i <= j

IsEmail(w) == w = "u@x.io"
\* The group (\d+)\b at the start of a word, "" when it has none.
DigitsGroup(w) ==
    CASE w = "7" -> "7"
      [] w = "2025-01-22" -> "2025"
      [] OTHER -> ""
IsDate(w) == w = "2025-01-22"
IsRegion(w) == w \in {"na", "eu", "apac", "latam"}

\* str.upper on the regions.
Upper(w) ==
    CASE w = "eu" -> "EU" [] w = "na" -> "NA" [] w = "apac" -> "APAC"
      [] w = "latam" -> "LATAM" [] OTHER -> w

\* The group ([a-z0-9_]+)\b at the start of a word.
NameGroup(w) ==
    CASE w = "2025-01-22" -> "2025"
      [] w = "u@x.io" -> "u"
      [] OTHER -> w

\* The name pattern matches at word i: "name" and a next word, or a word
\* that begins with "user" and goes on.
NameAt(token, i) ==
    \/ token[i] = "name" /\ i < Len(token)
    \/ token[i] = "user21"

NameOf(token, i) ==
    IF token[i] = "name" THEN NameGroup(token[i + 1]) ELSE "21"

\* The condition one token of a clause gives: the first pattern that
\* matches, in the order of the code, the fallback when none does.
TokenCond(token, today) ==
    LET at(i) == token[i]
        next(i) == IF i < Len(token) THEN token[i + 1] ELSE ""
        places == DOMAIN token
        lastMonth == {i \in places : at(i) \in {"last", "previous"}
                                         /\ next(i) = "month"}
        email == {i \in places : IsEmail(at(i))}
        id == {i \in places : at(i) = "id" /\ DigitsGroup(next(i)) # ""}
        signup == {i \in places : at(i) \in {"signup_date", "signup", "date"}
                                      /\ IsDate(next(i))}
        region == {i \in places : IsRegion(at(i))}
        name == {i \in places : NameAt(token, i)}
    IN  IF lastMonth # {}
        THEN Cond("signup_date", "range", _parse_last_month_range(today))
        ELSE IF email # {}
        THEN Cond("email", "eq", <<at(FirstIndex(email))>>)
        ELSE IF id # {}
        THEN Cond("id", "eq", <<DigitsGroup(next(FirstIndex(id)))>>)
        ELSE IF signup # {}
        THEN Cond("signup_date", "eq", <<next(FirstIndex(signup))>>)
        ELSE IF region # {}
        THEN Cond("region", "eq", <<Upper(at(FirstIndex(region)))>>)
        ELSE IF name # {}
        THEN Cond("name", "eq", <<NameOf(token, FirstIndex(name))>>)
        ELSE Cond("any", "like", token)

\* The clause of one part between two "or".
Clause(part, today) ==
    LET and_parts == Split(part, "and")
    IN  [i \in DOMAIN and_parts |-> TokenCond(and_parts[i], today)]

RECURSIVE NonEmpty(_)
NonEmpty(clauses) ==
    IF clauses = <<>> THEN <<>>
    ELSE IF Head(clauses) = <<>> THEN NonEmpty(Tail(clauses))
    ELSE <<Head(clauses)>> \o NonEmpty(Tail(clauses))

\* The result is returned as it is, empty or not.
NoFallback(dnf, q) == dnf

\* return dnf or [[Cond(field="any", op="like", value=q)]]
OrFallback(dnf, q) ==
    IF dnf = <<>> THEN << <<Cond("any", "like", q)>> >> ELSE dnf

\* parse_query_to_dnf(query), run on the day today.
parse_query_to_dnf(query, today) ==
    LET q == Normalize(query)
        or_parts == Split(q, "or")
        dnf == NonEmpty([i \in DOMAIN or_parts |-> Clause(or_parts[i], today)])
    IN  OrFallback(dnf, q)

(***************************************************************************)
(* The evaluator (row_matches_dnf) and the compiler to SQL                 *)
(* (_build_sql_where_from_dnf), and what SQLite does with the result       *)
(***************************************************************************)

\* The characters of the strings of the queries and of the rows.
Chars(w) ==
    CASE w = "and" -> <<"a", "n", "d">>
      [] w = "or" -> <<"o", "r">>
      [] w = "last" -> <<"l", "a", "s", "t">>
      [] w = "month" -> <<"m", "o", "n", "t", "h">>
      [] w = "id" -> <<"i", "d">>
      [] w = "7" -> <<"7">>
      [] w = "eu" -> <<"e", "u">>
      [] w = "EU" -> <<"E", "U">>
      [] w = "name" -> <<"n", "a", "m", "e">>
      [] w = "user21" -> <<"u", "s", "e", "r", "2", "1">>
      [] w = "u@x.io" -> <<"u", "@", "x", ".", "i", "o">>
      [] w = "signup_date" -> <<"s", "i", "g", "n", "u", "p", "_", "d", "a", "t", "e">>
      [] w = "2025-01-22" -> <<"2", "0", "2", "5", "-", "0", "1", "-", "2", "2">>
      [] w = "foo" -> <<"f", "o", "o">>
      [] w = "a_b" -> <<"a", "_", "b">>
      [] w = "Foo" -> <<"F", "o", "o">>
      [] w = "axb" -> <<"a", "x", "b">>
      [] w = "21" -> <<"2", "1">>
      [] w = "2025" -> <<"2", "0", "2", "5">>
      [] w = "u" -> <<"u">>
      [] w = "2024-12-01" -> <<"2", "0", "2", "4", "-", "1", "2", "-", "0", "1">>
      [] w = "2025-01-01" -> <<"2", "0", "2", "5", "-", "0", "1", "-", "0", "1">>
      [] w = "2025-02-01" -> <<"2", "0", "2", "5", "-", "0", "2", "-", "0", "1">>
      [] w = "2025-03-01" -> <<"2", "0", "2", "5", "-", "0", "3", "-", "0", "1">>
      [] OTHER -> <<>>

\* str(c.value): the words of the value with a blank between them.
ValueChars(value) == JoinWords([i \in DOMAIN value |-> Chars(value[i])])

\* ISO dates compare as strings in the order of the days.
IsoOrd(d) ==
    CASE d = "2024-12-01" -> 1 [] d = "2025-01-01" -> 2
      [] d = "2025-01-22" -> 3 [] d = "2025-02-01" -> 4
      [] d = "2025-03-01" -> 5 [] OTHER -> 0

UserFields == {"id", "name", "email", "region", "signup_date"}

\* The rows of users: every field a string or null.
UserRows ==
    [id : {NoneV, "7"}, name : {NoneV, "Foo", "axb"},
     email : {NoneV, "u@x.io"}, region : {NoneV, "EU"},
     signup_date : {NoneV, "2025-01-22"}]

\* match_cond of row_matches_dnf.
match_cond(r, c) ==
    IF c.op = "range" /\ c.field = "signup_date"
    THEN /\ r.signup_date # NoneV
         /\ IsoOrd(r.signup_date) >= IsoOrd(c.value[1])
         /\ IsoOrd(r.signup_date) < IsoOrd(c.value[2])
    ELSE IF c.field = "any" /\ c.op = "like"
    THEN \E key \in UserFields :
            /\ r[key] # NoneV
            /\ Contains(Lower(Chars(r[key])), Lower(ValueChars(c.value)))
    ELSE IF r[c.field] = NoneV THEN FALSE
    ELSE IF c.op = "eq"
    THEN IF c.field = "id"
         THEN r.id = c.value[1]
         ELSE Lower(Chars(r[c.field])) = Lower(ValueChars(c.value))
    ELSE IF c.op = "like"
    THEN Contains(Lower(Chars(r[c.field])), Lower(ValueChars(c.value)))
    ELSE FALSE

\* row_matches_dnf: some clause has all its conditions matched.
row_matches_dnf(r, d) ==
    \E i \in DOMAIN d : \A j \in DOMAIN d[i] : match_cond(r, d[i][j])

\* f"%{c.value}%"
LikePattern(value) == <<"%">> \o ValueChars(value) \o <<"%">>

\* The pattern is given once for the four lowered columns and the date.
AnyLikeParamsFour(like) == <<like, like, like, like>>

\* params.extend([like, like, like, like, like])
AnyLikeParams(like) == <<like, like, like, like, like>>

\* One condition compiled: the kind of its SQL text, the column, and the
\* parameters that fill its placeholders.
SqlAtom(c) ==
    IF c.op = "range" /\ c.field = "signup_date"
    THEN [sql |-> "range", field |-> "signup_date",
          params |-> <<c.value[1], c.value[2]>>]
    ELSE IF c.field = "any" /\ c.op = "like"
    THEN [sql |-> "any_like", field |-> "any",
          params |-> AnyLikeParams(LikePattern(c.value))]
    ELSE IF c.op = "eq" /\ c.field = "id"
    THEN [sql |-> "id_eq", field |-> "id", params |-> <<Chars(c.value[1])>>]
    ELSE IF c.op = "eq"
    THEN [sql |-> "lower_eq", field |-> c.field,
          params |-> <<ValueChars(c.value)>>]
    ELSE [sql |-> "lower_like", field |-> c.field,
          params |-> <<LikePattern(c.value)>>]

\* _build_sql_where_from_dnf: the OR of the ANDs of the compiled conditions.
_build_sql_where_from_dnf(d) ==
    [i \in DOMAIN d |-> [j \in DOMAIN d[i] |-> SqlAtom(d[i][j])]]

\* The text appended to and_sql for one condition, in pieces: a parenthesis,
\* a placeholder and a connective are pieces of their own.
AtomText(a) ==
    CASE a.sql = "range" ->
            <<"(", "signup_date >= ", "?", " AND ", "signup_date < ", "?",
              ")">>
      [] a.sql = "any_like" ->
            <<"(", "CAST", "(", "id AS TEXT", ")", " LIKE ", "?", " OR ",
              "lower", "(", "name", ")", " LIKE ", "lower", "(", "?", ")",
              " OR ",
              "lower", "(", "email", ")", " LIKE ", "lower", "(", "?", ")",
              " OR ",
              "lower", "(", "region", ")", " LIKE ", "lower", "(", "?", ")",
              " OR ", "signup_date LIKE ", "?", ")">>
      [] a.sql = "id_eq" -> <<"id = ", "?">>
      [] a.sql = "lower_eq" ->
            <<"lower", "(", a.field, ")", " = ", "lower", "(", "?", ")">>
      [] a.sql = "lower_like" ->
            <<"lower", "(", a.field, ")", " LIKE ", "lower", "(", "?", ")">>

\* sep.join(parts)
RECURSIVE JoinSql(_, _)
JoinSql(parts, sep) ==
    IF parts = <<>> THEN <<>>
    ELSE IF Len(parts) = 1 THEN parts[1]
    ELSE parts[1] \o <<sep>> \o JoinSql(Tail(parts), sep)

\* where: "(" + " AND ".join(and_sql) + ")" for each clause, joined by
\* " OR "; "1=1" when or_sql is empty.
WhereText(compiled_dnf) ==
    LET or_sql ==
            [i \in DOMAIN compiled_dnf |->
                <<"(">> \o JoinSql([j \in DOMAIN compiled_dnf[i] |->
                                       AtomText(compiled_dnf[i][j])], " AND ")
                       \o <<")">>]
    IN  IF or_sql = <<>> THEN <<"1=1">> ELSE JoinSql(or_sql, " OR ")

\* tuple(params): the parameters of the conditions as they were appended,
\* clause after clause.
RECURSIVE Extend(_)
Extend(lists) ==
    IF lists = <<>> THEN <<>> ELSE Head(lists) \o Extend(Tail(lists))

WhereParams(compiled_dnf) ==
    Extend([i \in DOMAIN compiled_dnf |->
               Extend([j \in DOMAIN compiled_dnf[i] |->
                          compiled_dnf[i][j].params])])

\* The clauses and the conditions of the DNFs handed to the compiler.
MaxClauses == 2
MaxConds == 2

CompileConds ==
    {Cond("signup_date", "range", <<"2025-01-01", "2025-02-01">>),
     Cond("any", "like", <<"foo">>),
     Cond("any", "like", <<"last", "7">>),
     Cond("id", "eq", <<"7">>),
     Cond("region", "eq", <<"EU">>),
     Cond("name", "like", <<"user21">>)}

CompileClauses == UNION {[1..n -> CompileConds] : n \in 1..MaxConds}
Dnfs == UNION {[1..n -> CompileClauses] : n \in 0..MaxClauses}

\* LIKE of SQLite: % stands for any characters, _ for any one character,
\* letters match without regard to case.
RECURSIVE Like(_, _)
Like(chars, pattern) ==
    IF pattern = <<>> THEN chars = <<>>
    ELSE IF Head(pattern) = "%"
    THEN Like(chars, Tail(pattern))
             \/ (chars # <<>> /\ Like(Tail(chars), pattern))
    ELSE /\ chars # <<>>
         /\ Head(pattern) = "_"
                \/ LowerChar(Head(pattern)) = LowerChar(Head(chars))
         /\ Like(Tail(chars), Tail(pattern))

\* What SQLite makes of one compiled condition on a stored row; a NULL
\* column makes it NULL, which selects nothing.
SqlAtomTrue(r, a) ==
    CASE a.sql = "range" ->
            /\ r.signup_date # NoneV
            /\ IsoOrd(r.signup_date) >= IsoOrd(a.params[1])
            /\ IsoOrd(r.signup_date) < IsoOrd(a.params[2])
      [] a.sql = "any_like" ->
            \/ r.id # NoneV /\ Like(Chars(r.id), a.params[1])
            \/ r.name # NoneV /\ Like(Lower(Chars(r.name)), Lower(a.params[2]))
            \/ r.email # NoneV
                  /\ Like(Lower(Chars(r.email)), Lower(a.params[3]))
            \/ r.region # NoneV
                  /\ Like(Lower(Chars(r.region)), Lower(a.params[4]))
            \/ r.signup_date # NoneV
                  /\ Like(Chars(r.signup_date), a.params[5])
      [] a.sql = "id_eq" -> r.id # NoneV /\ Chars(r.id) = a.params[1]
      [] a.sql = "lower_eq" ->
            /\ r[a.field] # NoneV
            /\ Lower(Chars(r[a.field])) = Lower(a.params[1])
      [] a.sql = "lower_like" ->
            /\ r[a.field] # NoneV
            /\ Like(Lower(Chars(r[a.field])), Lower(a.params[1]))

\* The row is selected by WHERE where; an empty where is "1=1".
SqlSelects(r, where) ==
    \/ where = <<>>
    \/ \E i \in DOMAIN where :
          \A j \in DOMAIN where[i] : SqlAtomTrue(r, where[i][j])

(***************************************************************************)
(* Merging the rows of the sources (dedupe_rows)                           *)
(***************************************************************************)

\* The longest list of rows handed to dedupe_rows.
MaxRows == 3

\* The origin tags the sub-searches put on their rows.
SourceTags == {"sql", "api", "file:users.csv"}

\* The rows the sub-searches return, each tagged with its origin. "NaN" is
\* the float nan that a data frame of _read_users_file has in an empty cell.
TaggedRows ==
    [id : {NoneV, "1"}, name : {"bo"}, email : {NoneV, "a@x", "A@X", "NaN"},
     region : {"", "EU"}, source : SourceTags]

RowLists == UNION {[1..n -> TaggedRows] : n \in 0..MaxRows}

\* str(r.get("email") or "").strip().lower()
EmailKey(e) ==
    CASE e = NoneV -> "" [] e = "A@X" -> "a@x" [] e = "NaN" -> "nan"
      [] OTHER -> e

\* str(r.get("name") or "").lower()
NameKey(n) ==
    CASE n = NoneV -> "" [] n = "Bo" -> "bo" [] OTHER -> n

\* The dedup key: the email when there is one, else the name and the id.
DedupKey(r) ==
    IF EmailKey(r.email) # "" THEN <<EmailKey(r.email)>>
    ELSE <<NameKey(r.name), r.id>>

\* The values that count as missing when fields are filled.
Missing(v) == v \in {NoneV, "", "nan"}

\* The sources of a key start empty whatever the row says.
FirstSourcesNone(r) == <<>>

\* rr["sources"] = [r.get("source")] if r.get("source") else []
FirstSources(r) ==
    IF r.source \notin {NoneV, ""} THEN <<r.source>> ELSE <<>>

\* The row a key gets when it is first seen: a copy without "source".
FirstRow(r) ==
    [id |-> r.id, name |-> r.name, email |-> r.email, region |-> r.region,
     sources |-> FirstSources(r)]

\* The source is appended whether listed or not.
AddSourceAlways(sources, src) ==
    IF src \notin {NoneV, ""} THEN Append(sources, src) ELSE sources

\* if src and src not in cur["sources"]: cur["sources"].append(src)
AddSource(sources, src) ==
    IF src \notin {NoneV, ""} /\ \A i \in DOMAIN sources : sources[i] # src
    THEN Append(sources, src)
    ELSE sources

\* cur[k] = v when cur[k] is missing and v is not.
Fill(cur, v) == IF Missing(cur) /\ ~Missing(v) THEN v ELSE cur

\* A later row of a key merged into the row the key has.
MergeRow(cur, r) ==
    [id |-> Fill(cur.id, r.id), name |-> Fill(cur.name, r.name),
     email |-> Fill(cur.email, r.email),
     region |-> Fill(cur.region, r.region),
     sources |-> AddSource(cur.sources, r.source)]

\* The dict merged after the rows: its keys in the order of insertion.
RECURSIVE Merged(_)
Merged(rows) ==
    IF rows = <<>> THEN <<>>
    ELSE LET before == Merged(SubSeq(rows, 1, Len(rows) - 1))
             r == rows[Len(rows)]
             key == DedupKey(r)
         IN  IF \E i \in DOMAIN before : before[i].key = key
             THEN [i \in DOMAIN before |->
                      IF before[i].key = key
                      THEN [key |-> key, row |-> MergeRow(before[i].row, r)]
                      ELSE before[i]]
             ELSE Append(before, [key |-> key, row |-> FirstRow(r)])

\* dedupe_rows: the merged rows in the order of their keys; the sources of
\* a row are the pieces of its ", "-joined string.
dedupe_rows(rows) ==
    LET merged == Merged(rows)
    IN  [i \in DOMAIN merged |-> merged[i].row]

(***************************************************************************)
(* The search over the three sources (search_everywhere_users)             *)
(***************************************************************************)

\* The most rows one sub-search returns.
MaxSourceRows == 2

\* The rows a source holds that match the query, before they are tagged.
SourceRows ==
    {[id |-> "1", name |-> "bo", email |-> "a@x", region |-> "EU"],
     [id |-> "1", name |-> "bo", email |-> "A@X", region |-> ""],
     [id |-> NoneV, name |-> "bo", email |-> "b@x", region |-> "EU"],
     [id |-> "1", name |-> "bo", email |-> NoneV, region |-> ""]}

SourceLists == UNION {[1..n -> SourceRows] : n \in 0..MaxSourceRows}

\* r["source"] = src on every row of a list.
Tagged(list, src) ==
    [i \in DOMAIN list |->
        [id |-> list[i].id, name |-> list[i].name, email |-> list[i].email,
         region |-> list[i].region, source |-> src]]

\* The rows of the files before those of the store and of the service.
GatheredBackwards(sql, api, file) == file \o api \o sql

\* sql_rows + api_rows + file_rows
Gathered(sql, api, file) == sql \o api \o file

(***************************************************************************)
(* Seeding the relational store (db/seed.py)                               *)
(***************************************************************************)

\* The rows seed() inserts: 3 products, 200 users, 150 orders.
NProducts == 3
NUsers == 200
NOrders == 150

\* The most rows each table ever held before the first seed().
MaxPrior == 4

\* The most times seed() runs.
MaxSeeds == 2

\* A database file: the rows of the three tables, and sqlite_sequence, where
\* SQLite keeps for each AUTOINCREMENT table the largest id it ever gave.
Db(users, products, orders, seq) ==
    [users |-> users, products |-> products, orders |-> orders,
     sqlite_sequence |-> seq]

\* A file in which u users, p products and o orders were inserted before,
\* and deleted since.
UsedDb(u, p, o) ==
    Db({}, {}, {}, [users |-> u, products |-> p, orders |-> o])

\* INSERT of n rows into an emptied AUTOINCREMENT table: row i of the loop
\* gets the id after the largest one ever given.
Inserted(seq, n) == {[id |-> seq + i, i |-> i] : i \in 1..n}

\* The orders of seed(): order i is of user (i % 200) + 1 and of product
\* (i % 3) + 1.
InsertedOrders(seq) ==
    {[id |-> seq + i, i |-> i, user_id |-> (i % NUsers) + 1,
      product_id |-> (i % NProducts) + 1] : i \in 1..NOrders}

\* seed(): CREATE TABLE IF NOT EXISTS, DELETE FROM the three tables (which
\* leaves sqlite_sequence as it is), then the inserts, then commit.
seed(d) ==
    Db(Inserted(d.sqlite_sequence.users, NUsers),
       Inserted(d.sqlite_sequence.products, NProducts),
       InsertedOrders(d.sqlite_sequence.orders),
       [users |-> d.sqlite_sequence.users + NUsers,
        products |-> d.sqlite_sequence.products + NProducts,
        orders |-> d.sqlite_sequence.orders + NOrders])

(***************************************************************************)
(* The mock REST service (mock_api/main.py): the items                     *)
(***************************************************************************)

\* The most items created after reset_store.
MaxItems == 3

\* The names in the bodies of POST and PUT.
ItemNames == {"T1", "T1x"}

\* The ids in the paths of GET, PUT and DELETE.
ItemIds == 1..(MaxItems + 1)

\* item.dict() with its id set.
Item(id, name) == [id |-> id, name |-> name]

\* A response: the handler, the id in its path (0 when it has none), the
\* status, the body, and _ITEMS as it was before the request.
ApiResponse(op, id, status, body, before) ==
    [op |-> op, id |-> id, status |-> status, body |-> body,
     before |-> before]

NoApiResponse == ApiResponse("none", 0, 0, {}, {})

\* _ITEMS.get(item_id): the items under the id, one or none.
ItemsAt(its, id) == {it \in its : it.id = id}

\* The counter is left as it is.
NextIdSame(n) == n

\* _NEXT_ID += 1
NextIdAfter(n) == n + 1

(***************************************************************************)
(* The pool of REST clients (query_api.get_connector)                      *)
(***************************************************************************)

\* The calls of get_connector in one behaviour.
MaxGets == 3

\* An api_key: None, or a text given by its pieces.
NoKey == [isnone |-> TRUE, text |-> <<>>]
Key(text) == [isnone |-> FALSE, text |-> text]

\* The base URLs and the credentials of the callers. "::" stands for the
\* two colons wherever they occur in a text.
BaseUrls == {<<"http://h">>, <<"http://h", "::", "a">>, <<"http://g">>}
ApiKeys == {NoKey, Key(<<"None">>), Key(<<"k">>), Key(<<"a", "::", "k">>)}

\* What an f-string makes of an api_key: the text itself, "None" for None.
Format(api_key) == IF api_key.isnone THEN <<"None">> ELSE api_key.text

\* key = f"{base_url}::{api_key}"
PoolKey(base_url, api_key) == base_url \o <<"::">> \o Format(api_key)

(***************************************************************************)
(* The users of the REST service, searched through the client              *)
(* (search_api_users, query_api, APIConnector.get)                         *)
(***************************************************************************)

\* The calls on the client in one behaviour.
MaxSearches == 3

\* The rows of /users: a row of the cached list is a dict that can get the
\* key "source" (None: it has no such key).
ApiUser(r) ==
    [id |-> r.id, name |-> r.name, email |-> r.email, region |-> r.region,
     signup_date |-> r.signup_date, source |-> NoneV]

ApiUsers ==
    {ApiUser([id |-> "7", name |-> "Foo", email |-> "u@x.io", region |-> "EU",
              signup_date |-> "2025-01-22"]),
     ApiUser([id |-> "21", name |-> "axb", email |-> NoneV, region |-> NoneV,
              signup_date |-> NoneV])}

\* The bodies the upstream can hold.
UsersBodies == UNION {[1..n -> ApiUsers] : n \in 0..2}

\* The queries of the searches.
UserQueries == {<<"eu">>, <<"axb">>, <<"id", "7">>, <<"user21">>}

\* rows = [r for r in data if ... row_matches_dnf(r, dnf)]: the places of
\* the rows of the body that match.
MatchingPlaces(body, d) == {i \in DOMAIN body : row_matches_dnf(body[i], d)}

\* for r in rows: r["source"] = "api". The rows are the dicts of the list
\* data itself: the list holds them with the new key.
TagInPlace(body, places) ==
    [i \in DOMAIN body |->
        IF i \in places THEN [body[i] EXCEPT !.source = "api"] ELSE body[i]]

(***************************************************************************)
(* State                                                                   *)
(***************************************************************************)

\* The line transport's stream and the socket transport's connections.
Conns == {"stdio", "ws1", "ws2"}
SocketConns == Conns \ {"stdio"}

\* The messages read over all connections in one behaviour.
MaxMsgs == 3

VARIABLES
    pc,           \* per connection: "closed", "open" (its loop runs), "ended"
    connections,  \* MCPWebSocketServer.connections
    inflight,     \* per connection: the requests read and not yet answered
    recvd,        \* per connection: the class of each message read, in order
    sent,         \* per connection: the number of the request each written
                  \* response answers, in the order written
    engine_in,    \* the text handed to MCPServer.handle_request directly
    engine_out,   \* what it returned
    engine_pc,    \* "ready" before that call, "done" after it
    cache,        \* APIConnector.cache: per key the body and its expiry
    lock,         \* APIConnector._lock: the caller holding it, or None
    waiters,      \* the callers waiting for the lock, first come first
    tpc,          \* per caller: "idle", "waiting", "attempt", "response",
                  \* "sleep"
    call,         \* per caller: the call it is in
    tries,        \* per caller: the failed attempts of its _request
    upstream,     \* per path: the body the upstream serves now
    now,          \* the clock of the cache
    ncalls,       \* the calls started so far
    last_fetch,   \* per request: the body a cached GET last fetched and
                  \* stored, when, and with which token (not valid, and
                  \* marked cleared, once the cache is cleared)
    ret,          \* what the step just taken returned to its caller, and how
                  \* (NoRet when no call returned in it)
    closed,       \* APIConnector.close() has completed
    sql_store,    \* the rows of the users table
    sql_in,       \* the last call of execute_sql: text, limit, rows before it
    sql_out,      \* what that call gave
    query,        \* the query handed to parse_query_to_dnf
    today,        \* the day it is, as its place in Todays
    parses,       \* the times the query was parsed so far
    dnf,          \* what the last of them returned
    first_dnf,    \* what the first of them returned
    row,          \* the row the compiled WHERE and the evaluator are tried on
    selected,     \* the WHERE compiled from dnf selects it in the store
    matched,      \* row_matches_dnf(row, dnf)
    rows,         \* the rows handed to dedupe_rows
    dedupe_done,  \* dedupe_rows was called
    deduped,      \* dedupe_rows(rows)
    deduped_twice,\* dedupe_rows(rows ++ rows)
    search_pc,    \* search_everywhere_users: "idle", "in_sql", "in_api", "in_file", "returned", "raised"
    search_log,   \* the starts and ends of the sub-searches, in order
    sql_rows,     \* what search_sql_users returned
    api_rows,     \* what search_api_users returned
    file_rows,    \* what search_file_users returned
    found,        \* what search_everywhere_users returned
    failed,       \* the sub-searches of this search that failed
    server,       \* MCPWebSocketServer.server: "idle" (None), "started", "closing" (stop() was called), "stopped" (stop() returned)
    db,           \* the database file at DB_PATH
    seeds,        \* the times seed() ran
    db_first,     \* the database after the first seed()
    items,        \* _ITEMS of the mock service
    next_id,      \* _NEXT_ID
    assigned,     \* the ids create_item gave, in order
    written,      \* per id the item last created or put under it
    deleted,      \* the ids delete_item removed
    api_resp      \* the response to the last request

transport_vars == <<pc, connections, inflight, recvd, sent>>
engine_vars == <<engine_in, engine_out, engine_pc>>
conn_vars == <<cache, lock, waiters, tpc, call, tries, upstream, now, ncalls,
               last_fetch, ret, closed>>

sql_vars == <<sql_store, sql_in, sql_out>>

parse_vars == <<query, today, parses, dnf, first_dnf>>

match_vars == <<row, selected, matched>>

dedupe_vars == <<rows, dedupe_done, deduped, deduped_twice>>

search_vars == <<search_pc, search_log, sql_rows, api_rows, file_rows, found,
                 failed>>

server_vars == <<server>>

seed_vars == <<db, seeds, db_first>>

mock_vars == <<items, next_id, assigned, written, deleted, api_resp>>

registry_vars == <<tools>>

pool_vars == <<connectors, handed>>

compile_vars == <<cdnf, compiled, where_sql, where_params>>

users_vars == <<upstream_users, users_cache, users_ret, searches>>

vars == <<transport_vars, engine_vars, conn_vars, sql_vars, parse_vars,
          match_vars, dedupe_vars, search_vars, server_vars, seed_vars,
          mock_vars, registry_vars, pool_vars, compile_vars, users_vars>>

\* What the actions of one component leave alone.
not_transport == <<engine_vars, conn_vars, sql_vars, parse_vars, match_vars,
                   dedupe_vars, search_vars, server_vars, seed_vars,
                   mock_vars, registry_vars, pool_vars, compile_vars,
                   users_vars>>
not_engine == <<transport_vars, conn_vars, sql_vars, parse_vars, match_vars,
                dedupe_vars, search_vars, server_vars, seed_vars, mock_vars,
                registry_vars, pool_vars, compile_vars, users_vars>>
not_conn == <<transport_vars, engine_vars, sql_vars, parse_vars, match_vars,
              dedupe_vars, search_vars, server_vars, seed_vars, mock_vars,
              registry_vars, pool_vars, compile_vars, users_vars>>
not_sql == <<transport_vars, engine_vars, conn_vars, parse_vars, match_vars,
             dedupe_vars, search_vars, server_vars, seed_vars, mock_vars,
             registry_vars, pool_vars, compile_vars, users_vars>>
not_parse == <<transport_vars, engine_vars, conn_vars, sql_vars, match_vars,
               dedupe_vars, search_vars, server_vars, seed_vars, mock_vars,
               registry_vars, pool_vars, compile_vars, users_vars>>
not_match == <<transport_vars, engine_vars, conn_vars, sql_vars, parse_vars,
               dedupe_vars, search_vars, server_vars, seed_vars, mock_vars,
               registry_vars, pool_vars, compile_vars, users_vars>>
not_parsematch == <<transport_vars, engine_vars, conn_vars, sql_vars,
                    dedupe_vars, search_vars, server_vars, seed_vars,
                    mock_vars, registry_vars, pool_vars, compile_vars,
                    users_vars>>
not_dedupe == <<transport_vars, engine_vars, conn_vars, sql_vars, parse_vars,
                match_vars, search_vars, server_vars, seed_vars, mock_vars,
                registry_vars, pool_vars, compile_vars, users_vars>>
not_search == <<transport_vars, engine_vars, conn_vars, sql_vars, parse_vars,
                match_vars, dedupe_vars, server_vars, seed_vars, mock_vars,
                registry_vars, pool_vars, compile_vars, users_vars>>
not_server == <<transport_vars, engine_vars, conn_vars, sql_vars, parse_vars,
                match_vars, dedupe_vars, search_vars, seed_vars, mock_vars,
                registry_vars, pool_vars, compile_vars, users_vars>>
not_transportserver == <<engine_vars, conn_vars, sql_vars, parse_vars,
                         match_vars, dedupe_vars, search_vars, seed_vars,
                         mock_vars, registry_vars, pool_vars, compile_vars,
                         users_vars>>
not_seed == <<transport_vars, engine_vars, conn_vars, sql_vars, parse_vars,
              match_vars, dedupe_vars, search_vars, server_vars, mock_vars,
              registry_vars, pool_vars, compile_vars, users_vars>>
not_mock == <<transport_vars, engine_vars, conn_vars, sql_vars, parse_vars,
              match_vars, dedupe_vars, search_vars, server_vars, seed_vars,
              registry_vars, pool_vars, compile_vars, users_vars>>
not_registry == <<transport_vars, engine_vars, conn_vars, sql_vars,
                  parse_vars, match_vars, dedupe_vars, search_vars,
                  server_vars, seed_vars, mock_vars, pool_vars, compile_vars,
                  users_vars>>
not_pool == <<transport_vars, engine_vars, conn_vars, sql_vars, parse_vars,
              match_vars, dedupe_vars, search_vars, server_vars, seed_vars,
              mock_vars, registry_vars, compile_vars, users_vars>>
not_compile == <<transport_vars, engine_vars, conn_vars, sql_vars,
                 parse_vars, match_vars, dedupe_vars, search_vars,
                 server_vars, seed_vars, mock_vars, registry_vars, pool_vars,
                 users_vars>>
not_users == <<transport_vars, engine_vars, conn_vars, sql_vars, parse_vars,
               match_vars, dedupe_vars, search_vars, server_vars, seed_vars,
               mock_vars, registry_vars, pool_vars, compile_vars>>

\* The texts the transports are fed: one of each kind of text, of each kind
\* of notification and of each way a request is answered.
LineTexts ==
    {BlankText, GarbageText, NonObjectText}
    \cup {Text("obj", NoneV, m, NoParams) :
            m \in NotificationMethods \cup {"initialize", "search_users", UnknownMethod}}
    \cup {Text("obj", "id1", m, NoParams) : m \in {"initialize", "list_sources"}}
    \cup {Text("obj", "id2", "tools/call",
                Params("map", "search_users", "blank", "absent", "empty"))}

\* A message as the claims class it: an empty text, a notification (a JSON
\* object without id), or anything else.
MessageClass(m) ==
    IF m.kind = "blank" THEN "blank"
    ELSE IF m.kind = "obj" /\ m.id = NoneV THEN "notification"
    ELSE "request"

RECURSIVE SumLen(_, _)
SumLen(f, S) ==
    IF S = {} THEN 0
    ELSE LET c == CHOOSE x \in S : TRUE IN Len(f[c]) + SumLen(f, S \ {c})

\* A request being served: its number on the connection, its text, and the
\* reply once handle_request has returned.
Task(seq, text, stage, reply) ==
    [seq |-> seq, text |-> text, stage |-> stage, reply |-> reply]

\* The read loop reads on while earlier requests are still being served
\* (each handed to a task of its own).
CanReceiveWhileServing(c) == pc[c] = "open"

\* The read loop of a connection awaits handle_request and the write of its
\* response before it reads again.
CanReceive(c) == pc[c] = "open" /\ inflight[c] = {}

ConnInit ==
    /\ cache = [k \in CacheKeys |-> NoEntry]
    /\ lock = NoneV
    /\ waiters = <<>>
    /\ tpc = [t \in Callers |-> "idle"]
    /\ call = [t \in Callers |-> NoCall]
    /\ tries = [t \in Callers |-> 0]
    /\ upstream = [p \in Paths |-> 0]
    /\ now = 0
    /\ ncalls = 0
    /\ last_fetch = [r \in Requests |-> NoFetch]
    /\ ret = NoRet
    /\ closed = FALSE

SqlCall(text, limit, store) == [text |-> text, limit |-> limit, store |-> store]

SqlIdle ==
    /\ sql_store = 150
    /\ sql_in = SqlCall(SqlText(<<>>, <<>>, FALSE), DefaultLimit, 150)
    /\ sql_out = NoSqlOut

EngineIdle ==
    /\ engine_in = BlankText
    /\ engine_out = NotHandled
    /\ engine_pc = "ready"

TransportInit ==
    /\ pc = [c \in Conns |-> IF c = "stdio" THEN "open" ELSE "closed"]
    /\ connections = {}
    /\ inflight = [c \in Conns |-> {}]
    /\ recvd = [c \in Conns |-> <<>>]
    /\ sent = [c \in Conns |-> <<>>]

\* No query was parsed yet.
ParseIdle ==
    /\ query = <<>>
    /\ today = 1
    /\ parses = 0
    /\ dnf = <<>>
    /\ first_dnf = <<>>

\* No row was tried yet.
NoRow ==
    [id |-> NoneV, name |-> "", email |-> NoneV, region |-> NoneV,
     signup_date |-> NoneV]

MatchIdle ==
    /\ row = NoRow
    /\ selected = FALSE
    /\ matched = FALSE

DedupeIdle ==
    /\ rows = <<>>
    /\ dedupe_done = FALSE
    /\ deduped = <<>>
    /\ deduped_twice = <<>>

SearchIdle ==
    /\ search_pc = "idle"
    /\ search_log = <<>>
    /\ sql_rows = <<>>
    /\ api_rows = <<>>
    /\ file_rows = <<>>
    /\ found = <<>>
    /\ failed = {}

ServerIdle ==
    /\ server = "idle"

SeedIdle ==
    /\ db = UsedDb(0, 0, 0)
    /\ seeds = 0
    /\ db_first = UsedDb(0, 0, 0)

MockReset ==
    /\ items = {}
    /\ next_id = 1
    /\ assigned = <<>>
    /\ written = [id \in ItemIds |-> {}]
    /\ deleted = {}
    /\ api_resp = NoApiResponse

Registered ==
    /\ tools = RegisteredTools

PoolIdle ==
    /\ connectors = {}
    /\ handed = {}

CompileIdle ==
    /\ cdnf = <<>>
    /\ compiled = FALSE
    /\ where_sql = <<>>
    /\ where_params = <<>>

UsersIdle ==
    /\ upstream_users = <<>>
    /\ users_cache = [present |-> FALSE, body |-> <<>>]
    /\ users_ret = [op |-> "none", body |-> <<>>]
    /\ searches = 0

Init ==
    /\ TransportInit
    /\ UsersIdle
    /\ CompileIdle
    /\ PoolIdle
    /\ Registered
    /\ MockReset
    /\ SeedIdle
    /\ ServerIdle
    /\ SearchIdle
    /\ DedupeIdle
    /\ MatchIdle
    /\ EngineIdle
    /\ ConnInit
    /\ SqlIdle
    /\ ParseIdle

(***************************************************************************)
(* The line transport (run_stdio_server.process_input)                     *)
(***************************************************************************)

\* line = readline(); line.strip(); an empty line is skipped, any other is
\* handed to the engine.
StdioRead(m) ==
    /\ CanReceive("stdio")
    /\ SumLen(recvd, Conns) < MaxMsgs
    /\ recvd' = [recvd EXCEPT !["stdio"] = Append(@, MessageClass(m))]
    /\ inflight' = [inflight EXCEPT !["stdio"] =
            IF m.kind = "blank" THEN @
            ELSE @ \cup {Task(Len(recvd["stdio"]) + 1, m, "handling", NotHandled)}]
    /\ UNCHANGED <<pc, connections, sent, not_transport>>

\* response = await server.handle_request(line)
StdioHandle ==
    \E r \in inflight["stdio"] :
        /\ r.stage = "handling"
        /\ inflight' = [inflight EXCEPT !["stdio"] =
                (@ \ {r}) \cup {Task(r.seq, r.text, "replying", handle_request(r.text))}]
        /\ UNCHANGED <<pc, connections, recvd, sent, not_transport>>

\* if response: sys.stdout.write(response); sys.stdout.flush()
StdioWrite ==
    \E r \in inflight["stdio"] :
        /\ r.stage = "replying"
        /\ sent' = [sent EXCEPT !["stdio"] =
                IF r.reply.isnone THEN @ ELSE Append(@, r.seq)]
        /\ inflight' = [inflight EXCEPT !["stdio"] = @ \ {r}]
        /\ UNCHANGED <<pc, connections, recvd, not_transport>>

\* readline() returns "" at the end of the stream: the loop breaks.
StdioEof ==
    /\ CanReceive("stdio")
    /\ pc' = [pc EXCEPT !["stdio"] = "ended"]
    /\ UNCHANGED <<connections, inflight, recvd, sent, not_transport>>

(***************************************************************************)
(* The socket transport (MCPWebSocketServer.handle_client)                 *)
(***************************************************************************)

\* websockets.serve accepts connections from start() until close().
Accepting == server = "started"

\* The set is left as it is.
DiscardNothing(S, c) == S

\* self.connections.discard(websocket)
Discard(S, c) == S \ {c}

\* self.connections.add(websocket)
WsConnect(c) ==
    /\ Accepting
    /\ pc[c] = "closed"
    /\ pc' = [pc EXCEPT ![c] = "open"]
    /\ connections' = connections \cup {c}
    /\ UNCHANGED <<inflight, recvd, sent, not_transport>>

\* async for message in websocket: every message goes to the engine.
WsReceive(c, m) ==
    /\ CanReceive(c)
    /\ SumLen(recvd, Conns) < MaxMsgs
    /\ recvd' = [recvd EXCEPT ![c] = Append(@, MessageClass(m))]
    /\ inflight' = [inflight EXCEPT ![c] =
            @ \cup {Task(Len(recvd[c]) + 1, m, "handling", NotHandled)}]
    /\ UNCHANGED <<pc, connections, sent, not_transport>>

\* response = await self.mcp_server.handle_request(message)
WsHandle(c) ==
    \E r \in inflight[c] :
        /\ r.stage = "handling"
        /\ inflight' = [inflight EXCEPT ![c] =
                (@ \ {r}) \cup {Task(r.seq, r.text, "replying", handle_request(r.text))}]
        /\ UNCHANGED <<pc, connections, recvd, sent, not_transport>>

\* if response: await websocket.send(response)
WsSend(c) ==
    \E r \in inflight[c] :
        /\ r.stage = "replying"
        /\ sent' = [sent EXCEPT ![c] =
                IF r.reply.isnone THEN @ ELSE Append(@, r.seq)]
        /\ inflight' = [inflight EXCEPT ![c] = @ \ {r}]
        /\ UNCHANGED <<pc, connections, recvd, not_transport>>

\* The client closes: the async for ends and the finally clause discards
\* the connection.
WsDisconnect(c) ==
    /\ CanReceive(c)
    /\ pc' = [pc EXCEPT ![c] = "ended"]
    /\ connections' = Discard(connections, c)
    /\ UNCHANGED <<inflight, recvd, sent, not_transport>>

\* The connection is gone when the response is sent: websocket.send
\* raises ConnectionClosed, the outer except logs it and the finally clause
\* discards the connection.
WsSendFails(c) ==
    \E r \in inflight[c] :
        /\ r.stage = "replying"
        /\ ~r.reply.isnone
        /\ inflight' = [inflight EXCEPT ![c] = @ \ {r}]
        /\ pc' = [pc EXCEPT ![c] = "ended"]
        /\ connections' = Discard(connections, c)
        /\ UNCHANGED <<recvd, sent, not_transport>>

(***************************************************************************)
(* The life of the socket server (start, stop, run_forever)                *)
(***************************************************************************)

\* start(): self.server = await websockets.serve(...); run_forever calls it
\* once.
ServerStart ==
    /\ server = "idle"
    /\ server' = "started"
    /\ UNCHANGED <<transport_vars, not_transportserver>>

\* stop(): self.server.close() stops the listening socket and starts
\* closing the open connections.
ServerStop ==
    /\ server = "started"
    /\ server' = "closing"
    /\ UNCHANGED <<transport_vars, not_transportserver>>

\* The server closes a connection whose loop waits for a message: the
\* async for ends and the finally clause discards the connection.
WsServerClose(c) ==
    /\ server = "closing"
    /\ CanReceive(c)
    /\ pc' = [pc EXCEPT ![c] = "ended"]
    /\ connections' = Discard(connections, c)
    /\ UNCHANGED <<inflight, recvd, sent, not_transport>>

\* The handlers are waited for whether they run or not.
HandlersDoneAlways == TRUE

\* wait_closed() returns when every connection handler has completed.
HandlersDone == \A c \in SocketConns : pc[c] # "open"

\* await self.server.wait_closed() returns, and stop() with it.
ServerStopped ==
    /\ server = "closing"
    /\ HandlersDone
    /\ server' = "stopped"
    /\ UNCHANGED <<transport_vars, not_transportserver>>

Next ==
    \/ \E m \in LineTexts : StdioRead(m)
    \/ StdioHandle
    \/ StdioWrite
    \/ StdioEof
    \/ \E c \in SocketConns : WsConnect(c)
    \/ \E c \in SocketConns, m \in LineTexts : WsReceive(c, m)
    \/ \E c \in SocketConns : WsHandle(c)
    \/ \E c \in SocketConns : WsSend(c)
    \/ \E c \in SocketConns : WsDisconnect(c)
    \/ \E c \in SocketConns : WsSendFails(c)
    \/ \E c \in SocketConns : WsServerClose(c)
    \/ ServerStart
    \/ ServerStop
    \/ ServerStopped

Spec == Init /\ [][Next]_vars

(***************************************************************************)
(* The engine alone: handle_request on every text of the model             *)
(***************************************************************************)

EngineInit ==
    /\ TransportInit
    /\ UsersIdle
    /\ CompileIdle
    /\ PoolIdle
    /\ Registered
    /\ MockReset
    /\ SeedIdle
    /\ ServerIdle
    /\ SearchIdle
    /\ DedupeIdle
    /\ MatchIdle
    /\ ConnInit
    /\ SqlIdle
    /\ ParseIdle
    /\ engine_in \in Texts
    /\ engine_out = NotHandled
    /\ engine_pc = "ready"

EngineCall ==
    /\ engine_pc = "ready"
    /\ engine_out' = handle_request(engine_in)
    /\ engine_pc' = "done"
    /\ UNCHANGED <<engine_in, not_engine>>

EngineAgain ==
    /\ engine_pc = "done"
    /\ engine_in' \in Texts
    /\ engine_out' = NotHandled
    /\ engine_pc' = "ready"
    /\ UNCHANGED not_engine

EngineNext == EngineCall \/ EngineAgain

SpecEngine == EngineInit /\ [][EngineNext]_vars

(***************************************************************************)
(* The REST client (APIConnector): get, _request and query_api             *)
(***************************************************************************)

\* The call of caller t returns r.
Finish(t, r) ==
    /\ ret' = r
    /\ tpc' = [tpc EXCEPT ![t] = "idle"]
    /\ call' = [call EXCEPT ![t] = NoCall]
    /\ tries' = [tries EXCEPT ![t] = 0]

\* The caller enters _request holding what it holds.
StartRequest(t, c) ==
    /\ tpc' = [tpc EXCEPT ![t] = "attempt"]
    /\ call' = [call EXCEPT ![t] = c]
    /\ tries' = [tries EXCEPT ![t] = 0]
    /\ ret' = NoRet

\* APIConnector.get up to its first suspension: a hit returns the cached
\* body; a miss takes the lock when it is free and nobody waits for it, and
\* goes on to _request, or queues for the lock.
\* The lock is taken whoever holds it.
LockFreeAlways == TRUE

\* async with self._lock: entered at once when nobody holds the lock or
\* waits for it.
LockFree == lock = NoneV /\ waiters = <<>>

GetCall(t, path, params, use_cache, oauth2_token) ==
    LET key == _cache_key(path, params)
        g == IF use_cache
             THEN Call("GET", path, params, TRUE, FALSE, now,
                       last_fetch[RequestOf(path, params)])
             ELSE Call("GET", path, params, FALSE, FALSE, 0, NoFetch)
        c == [g EXCEPT !.token = oauth2_token]
    IN  /\ tpc[t] = "idle"
        /\ ncalls < MaxCalls
        /\ ncalls' = ncalls + 1
        /\ IF use_cache /\ InCache(cache, key, now)
           THEN /\ Finish(t, Ret(c, "ok", CacheGet(cache, key), 0, 0))
                /\ UNCHANGED <<lock, waiters>>
           ELSE IF LockFree
           THEN /\ lock' = t
                /\ StartRequest(t, c)
                /\ UNCHANGED waiters
           ELSE /\ waiters' = Append(waiters, t)
                /\ tpc' = [tpc EXCEPT ![t] = "waiting"]
                /\ call' = [call EXCEPT ![t] = c]
                /\ ret' = NoRet
                /\ UNCHANGED <<lock, tries>>
        /\ UNCHANGED <<cache, upstream, now, last_fetch, closed, not_conn>>

\* The cache is not looked at again under the lock.
DoubleCheckNever(c, key) == FALSE

\* The double-checked locking of APIConnector.get: "use_cache and key in
\* self.cache", evaluated with the lock held.
DoubleCheck(c, key) == c.use_cache /\ InCache(cache, key, now)

\* The first waiter gets the released lock and checks the cache again: a
\* hit returns (and releases the lock), a miss goes on to _request.
GetAcquire(t) ==
    LET c == call[t]
        key == _cache_key(c.path, c.params)
    IN  /\ tpc[t] = "waiting"
        /\ lock = NoneV
        /\ waiters # <<>> /\ Head(waiters) = t
        /\ waiters' = Tail(waiters)
        /\ IF DoubleCheck(c, key)
           THEN /\ Finish(t, Ret(c, "ok", CacheGet(cache, key), 0, 0))
                /\ UNCHANGED lock
           ELSE /\ lock' = t
                /\ StartRequest(t, c)
        /\ UNCHANGED <<cache, upstream, now, ncalls, last_fetch, closed, not_conn>>

\* query_api with POST, PUT or DELETE: connector.post/put/delete go to
\* _request without the lock.
MutateCall(t, op, path, invalidate) ==
    /\ tpc[t] = "idle"
    /\ ncalls < MaxCalls
    /\ ncalls' = ncalls + 1
    /\ StartRequest(t, Call(op, path, NoQuery, FALSE, invalidate, 0, NoFetch))
    /\ UNCHANGED <<cache, lock, waiters, upstream, now, last_fetch, closed, not_conn>>

\* The upstream serves an attempt of _request: a GET reads the body, a
\* POST, PUT or DELETE changes it. The response is on its way to the client.
\* A closed client sends nothing: client.request raises, the attempt fails.
UpstreamServe(t) ==
    LET c == call[t]
    IN  /\ tpc[t] = "attempt"
        /\ ~closed
        /\ tpc' = [tpc EXCEPT ![t] = "response"]
        /\ IF c.op = "GET"
           THEN /\ call' = [call EXCEPT ![t].body = upstream[c.path]]
                /\ UNCHANGED upstream
           ELSE /\ upstream[c.path] < MaxVersion
                /\ upstream' = [upstream EXCEPT ![c.path] = @ + 1]
                /\ call' = [call EXCEPT ![t].body = upstream[c.path] + 1]
        /\ ret' = NoRet
        /\ UNCHANGED <<cache, lock, waiters, tries, now, ncalls, last_fetch,
                       closed, not_conn>>

\* The lock stays with the caller that leaves its get.
ReleaseNever(t) == lock

\* Leaving "async with self._lock" (return or exception) releases the lock;
\* post, put and delete never took it.
Release(t) == IF call[t].op = "GET" THEN NoneV ELSE lock

\* _request returns the response. APIConnector.get stores the body when
\* use_cache is set, releases the lock and returns it; after a POST, PUT or
\* DELETE query_api clears the cache when invalidate_cache is set.
AttemptOk(t) ==
    LET c == call[t]
        key == _cache_key(c.path, c.params)
    IN  /\ tpc[t] = "response"
        /\ IF c.op = "GET"
           THEN /\ cache' = IF c.use_cache
                            THEN CacheStore(cache, key, c.body, now)
                            ELSE cache
                /\ last_fetch' =
                      IF c.use_cache
                      THEN [last_fetch EXCEPT ![RequestOf(c.path, c.params)] =
                               [valid |-> TRUE, body |-> c.body, at |-> now,
                                cleared |-> FALSE, token |-> c.token]]
                      ELSE last_fetch
                /\ lock' = Release(t)
           ELSE /\ cache' = IF c.invalidate THEN CacheClear(cache) ELSE cache
                /\ last_fetch' =
                      IF c.invalidate
                      THEN [r \in Requests |->
                              IF last_fetch[r].valid
                              THEN [last_fetch[r] EXCEPT !.valid = FALSE,
                                                         !.cleared = TRUE]
                              ELSE last_fetch[r]]
                      ELSE last_fetch
                /\ UNCHANGED lock
        /\ Finish(t, Ret(c, "ok", c.body, tries[t] + 1, 1))
        /\ UNCHANGED <<waiters, upstream, now, ncalls, closed, not_conn>>

\* The sleep grows by the same step after every failure.
WaitLinear(attempt) == 500 * (attempt + 1)

\* wait = 0.5 * (2 ** attempt), in milliseconds; attempt counts from 0.
Wait(attempt) == 500 * (2 ^ attempt)

\* An attempt of _request fails (transport error or raise_for_status): the
\* caller sleeps 0.5 * 2 ** attempt.
AttemptFail(t) ==
    /\ tpc[t] = "attempt"
    /\ call' = [call EXCEPT ![t].waited = Append(@, Wait(tries[t]))]
    /\ tries' = [tries EXCEPT ![t] = @ + 1]
    /\ tpc' = [tpc EXCEPT ![t] = "sleep"]
    /\ ret' = NoRet
    /\ UNCHANGED <<cache, lock, waiters, upstream, now, ncalls,
                   last_fetch, closed, not_conn>>

\* The sleep ends: the next attempt, or RuntimeError after the third failure
\* (a GET leaves its "async with" and releases the lock).
Backoff(t) ==
    /\ tpc[t] = "sleep"
    /\ IF tries[t] < MaxAttempts
       THEN /\ tpc' = [tpc EXCEPT ![t] = "attempt"]
            /\ ret' = NoRet
            /\ UNCHANGED <<lock, call, tries>>
       ELSE /\ Finish(t, Ret(call[t], "error", 0, tries[t], 0))
            /\ lock' = Release(t)
    /\ UNCHANGED <<cache, waiters, upstream, now, ncalls, last_fetch, closed, not_conn>>

\* The task of a call is cancelled at one of its awaits. CancelledError is
\* not an Exception: the retry loop of _request does not catch it, get
\* leaves its "async with" and the lock is released; a caller still waiting
\* for the lock leaves the queue of the lock. Nothing is stored, and
\* query_api does not reach its cache.clear().
Cancel(t) ==
    /\ tpc[t] # "idle"
    /\ IF tpc[t] = "waiting"
       THEN /\ waiters' = SelectSeq(waiters, LAMBDA w : w # t)
            /\ UNCHANGED lock
       ELSE /\ lock' = Release(t)
            /\ UNCHANGED waiters
    /\ Finish(t, Ret(call[t], "cancelled", 0, tries[t], 0))
    /\ UNCHANGED <<cache, upstream, now, ncalls, last_fetch, closed, not_conn>>

\* Time passes.
Tick ==
    /\ now < MaxTime
    /\ now' = now + 1
    /\ ret' = NoRet
    /\ UNCHANGED <<cache, lock, waiters, tpc, call, tries, upstream, ncalls,
                   last_fetch, closed, not_conn>>

\* APIConnector.close: await self.client.aclose(). Nothing else of the
\* connector changes: the cache keeps its entries. The connector is closed
\* when its calls are over, as the test and the demo script close it; a call
\* that a close overtakes fails like any call whose attempts fail.
Close ==
    /\ ~closed
    /\ \A t \in Callers : tpc[t] = "idle"
    /\ closed' = TRUE
    /\ ret' = NoRet
    /\ UNCHANGED <<cache, lock, waiters, tpc, call, tries, upstream, now,
                   ncalls, last_fetch, not_conn>>

ConnNext ==
    \/ \E t \in Callers, p \in Paths, q \in ParamChoices, u \in BOOLEAN :
          GetCall(t, p, q, u, NoneV)
    \/ \E t \in Callers : GetAcquire(t)
    \/ \E t \in Callers, op \in {"POST", "PUT", "DELETE"}, i \in BOOLEAN :
          MutateCall(t, op, "/items", i)
    \/ \E t \in Callers : UpstreamServe(t)
    \/ \E t \in Callers : AttemptOk(t)
    \/ \E t \in Callers : AttemptFail(t)
    \/ \E t \in Callers : Backoff(t)
    \/ Tick
    \/ Close

SpecConn == Init /\ [][ConnNext]_vars

\* The bearer tokens a call can override the client's credential with.
Tokens == {NoneV, "tokenA", "tokenB"}

\* GETs on one client that differ in their per-call oauth2_token.
TokenNext ==
    \/ \E t \in Callers, p \in Paths, u \in BOOLEAN, k \in Tokens :
          GetCall(t, p, NoQuery, u, k)
    \/ \E t \in Callers : GetAcquire(t)
    \/ \E t \in Callers : UpstreamServe(t)
    \/ \E t \in Callers : AttemptOk(t)
    \/ \E t \in Callers : AttemptFail(t)
    \/ \E t \in Callers : Backoff(t)
    \/ Tick

SpecToken == Init /\ [][TokenNext]_vars

\* Calls on one client that can be cancelled. Every attempt has an outcome
\* (the httpx client has a timeout), every sleep ends, and the loop runs a
\* task that the released lock has woken up.
LockNext ==
    \/ \E t \in Callers, p \in Paths, q \in {NoQuery, Query(<<1, 2>>)},
          u \in BOOLEAN : GetCall(t, p, q, u, NoneV)
    \/ \E t \in Callers : GetAcquire(t)
    \/ \E t \in Callers, i \in BOOLEAN : MutateCall(t, "POST", "/items", i)
    \/ \E t \in Callers : UpstreamServe(t)
    \/ \E t \in Callers : AttemptOk(t)
    \/ \E t \in Callers : AttemptFail(t)
    \/ \E t \in Callers : Backoff(t)
    \/ \E t \in Callers : Cancel(t)

LockFairness ==
    \A t \in Callers :
        /\ WF_vars(GetAcquire(t))
        /\ WF_vars(UpstreamServe(t) \/ AttemptFail(t))
        /\ WF_vars(AttemptOk(t))
        /\ WF_vars(Backoff(t))

SpecLock == Init /\ [][LockNext]_vars /\ LockFairness

(***************************************************************************)
(* The pool of REST clients, asked for clients                             *)
(***************************************************************************)

\* get_connector: a key that is not in _CONNECTORS gets a new APIConnector
\* made of the base URL and the credential of this call; the client under
\* the key is returned.
get_connector(base_url, api_key) ==
    LET key == PoolKey(base_url, api_key)
        made == [key |-> key, id |-> Cardinality(connectors) + 1,
                 base_url |-> base_url, api_key |-> api_key]
        entries == IF \E e \in connectors : e.key = key
                   THEN connectors
                   ELSE connectors \cup {made}
        client == CHOOSE e \in entries : e.key = key
    IN  /\ Cardinality(handed) < MaxGets
        /\ connectors' = entries
        /\ handed' = handed \cup
              {[base_url |-> base_url, api_key |-> api_key, id |-> client.id]}
        /\ UNCHANGED not_pool

PoolNext == \E b \in BaseUrls, k \in ApiKeys : get_connector(b, k)

SpecPool == Init /\ [][PoolNext]_vars

(***************************************************************************)
(* Searches of the users of the REST service and cached GETs of /users     *)
(***************************************************************************)

UsersInit ==
    /\ TransportInit
    /\ CompileIdle
    /\ PoolIdle
    /\ Registered
    /\ MockReset
    /\ SeedIdle
    /\ ServerIdle
    /\ SearchIdle
    /\ DedupeIdle
    /\ MatchIdle
    /\ EngineIdle
    /\ ConnInit
    /\ SqlIdle
    /\ ParseIdle
    /\ upstream_users \in UsersBodies
    /\ users_cache = [present |-> FALSE, body |-> <<>>]
    /\ users_ret = [op |-> "none", body |-> <<>>]
    /\ searches = 0

\* connector.get("/users") with use_cache: the list in the cache on a hit;
\* on a miss the list resp.json() made, which is stored and returned, the
\* same object in the cache and in the caller's hands.
CachedUsers ==
    IF users_cache.present THEN users_cache.body ELSE upstream_users

\* search_api_users(query): GET /users through query_api, the rows that
\* match filtered out of data and tagged.
search_api_users(q, day) ==
    LET data == CachedUsers
        places == MatchingPlaces(data, parse_query_to_dnf(q, day))
        tagged == TagInPlace(data, places)
    IN  /\ searches < MaxSearches
        /\ searches' = searches + 1
        /\ users_cache' = [present |-> TRUE, body |-> tagged]
        /\ users_ret' = [op |-> "search",
                         body |-> SelectSeq(tagged,
                                     LAMBDA r : \E i \in places : tagged[i] = r)]
        /\ UNCHANGED <<upstream_users, not_users>>

\* query_api GET /users with use_cache on the same client.
QueryUsers ==
    /\ searches < MaxSearches
    /\ searches' = searches + 1
    /\ users_cache' = [present |-> TRUE, body |-> CachedUsers]
    /\ users_ret' = [op |-> "get", body |-> CachedUsers]
    /\ UNCHANGED <<upstream_users, not_users>>

\* The entry of /users outlives its TTL: the next GET is a miss.
UsersExpire ==
    /\ users_cache.present
    /\ users_cache' = [present |-> FALSE, body |-> <<>>]
    /\ users_ret' = [op |-> "none", body |-> <<>>]
    /\ UNCHANGED <<upstream_users, searches, not_users>>

UsersNext ==
    \/ \E q \in UserQueries : search_api_users(q, Todays[1])
    \/ QueryUsers
    \/ UsersExpire

SpecUsers == UsersInit /\ [][UsersNext]_vars

(***************************************************************************)
(* The SQL executor (execute_sql)                                          *)
(***************************************************************************)

SqlInit ==
    /\ TransportInit
    /\ UsersIdle
    /\ CompileIdle
    /\ PoolIdle
    /\ Registered
    /\ MockReset
    /\ SeedIdle
    /\ ServerIdle
    /\ SearchIdle
    /\ DedupeIdle
    /\ MatchIdle
    /\ EngineIdle
    /\ ConnInit
    /\ ParseIdle
    /\ sql_store \in StoreSizes
    /\ sql_in = SqlCall(SqlText(<<>>, <<>>, FALSE), DefaultLimit, sql_store)
    /\ sql_out = NoSqlOut

\* One call of execute_sql.
ExecuteSql(text, limit) ==
    LET r == execute_sql(text, limit, sql_store)
    IN  /\ sql_in' = SqlCall(text, limit, sql_store)
        /\ sql_out' = r.out
        /\ sql_store' = r.store
        /\ UNCHANGED not_sql

SqlNext == \E text \in SqlTexts, limit \in Limits : ExecuteSql(text, limit)

SpecSql == SqlInit /\ [][SqlNext]_vars

(***************************************************************************)
(* The query parser, run on a query once and again                         *)
(***************************************************************************)

\* The most times one query is parsed.
MaxParses == 2

ParseInit ==
    /\ TransportInit
    /\ UsersIdle
    /\ CompileIdle
    /\ PoolIdle
    /\ Registered
    /\ MockReset
    /\ SeedIdle
    /\ ServerIdle
    /\ SearchIdle
    /\ DedupeIdle
    /\ MatchIdle
    /\ EngineIdle
    /\ ConnInit
    /\ SqlIdle
    /\ query \in Queries
    /\ today = 1
    /\ parses = 0
    /\ dnf = <<>>
    /\ first_dnf = <<>>

\* One call of parse_query_to_dnf(query); the day is the one date.today()
\* gives inside _parse_last_month_range.
ParseQuery ==
    /\ parses < MaxParses
    /\ parses' = parses + 1
    /\ dnf' = parse_query_to_dnf(query, Todays[today])
    /\ first_dnf' = IF parses = 0 THEN dnf' ELSE first_dnf
    /\ UNCHANGED <<query, today, not_parse>>

\* Midnight: date.today() gives the next day from here on.
DayPasses ==
    /\ today < Len(Todays)
    /\ today' = today + 1
    /\ UNCHANGED <<query, parses, dnf, first_dnf, not_parse>>

ParseNext == ParseQuery \/ DayPasses

SpecParse == ParseInit /\ [][ParseNext]_vars

(***************************************************************************)
(* A parsed query, compiled and run in the store, and evaluated locally    *)
(***************************************************************************)

\* parse_query_to_dnf(query) on some day, then for one row of users the
\* SELECT of search_sql_users with the compiled WHERE, and row_matches_dnf.
MatchRow(r, day) ==
    /\ row = NoRow
    /\ dnf' = parse_query_to_dnf(query, Todays[day])
    /\ row' = r
    /\ selected' = SqlSelects(r, _build_sql_where_from_dnf(dnf'))
    /\ matched' = row_matches_dnf(r, dnf')
    /\ UNCHANGED <<query, today, parses, first_dnf, not_parsematch>>

MatchNext == \E r \in UserRows, day \in DOMAIN Todays : MatchRow(r, day)

SpecMatch == ParseInit /\ [][MatchNext]_vars

(***************************************************************************)
(* _build_sql_where_from_dnf on a DNF                                      *)
(***************************************************************************)

CompileInit ==
    /\ TransportInit
    /\ UsersIdle
    /\ PoolIdle
    /\ Registered
    /\ MockReset
    /\ SeedIdle
    /\ ServerIdle
    /\ SearchIdle
    /\ DedupeIdle
    /\ MatchIdle
    /\ EngineIdle
    /\ ConnInit
    /\ SqlIdle
    /\ ParseIdle
    /\ cdnf \in Dnfs
    /\ compiled = FALSE
    /\ where_sql = <<>>
    /\ where_params = <<>>

\* where, params = _build_sql_where_from_dnf(dnf)
Compile ==
    /\ ~compiled
    /\ compiled' = TRUE
    /\ where_sql' = WhereText(_build_sql_where_from_dnf(cdnf))
    /\ where_params' = WhereParams(_build_sql_where_from_dnf(cdnf))
    /\ UNCHANGED <<cdnf, not_compile>>

CompileNext == Compile

SpecCompile == CompileInit /\ [][CompileNext]_vars

(***************************************************************************)
(* dedupe_rows on a list of rows, and on the list twice over               *)
(***************************************************************************)

DedupeInit ==
    /\ TransportInit
    /\ UsersIdle
    /\ CompileIdle
    /\ PoolIdle
    /\ Registered
    /\ MockReset
    /\ SeedIdle
    /\ ServerIdle
    /\ SearchIdle
    /\ EngineIdle
    /\ ConnInit
    /\ SqlIdle
    /\ ParseIdle
    /\ MatchIdle
    /\ rows \in RowLists
    /\ dedupe_done = FALSE
    /\ deduped = <<>>
    /\ deduped_twice = <<>>

DedupeRows ==
    /\ ~dedupe_done
    /\ dedupe_done' = TRUE
    /\ deduped' = dedupe_rows(rows)
    /\ deduped_twice' = dedupe_rows(rows \o rows)
    /\ UNCHANGED <<rows, not_dedupe>>

DedupeNext == DedupeRows

SpecDedupe == DedupeInit /\ [][DedupeNext]_vars

(***************************************************************************)
(* search_everywhere_users, one await after the other                      *)
(***************************************************************************)

\* search_everywhere_users is called: _gather_all_sources awaits
\* search_sql_users.
SearchCall ==
    /\ search_pc = "idle"
    /\ search_pc' = "in_sql"
    /\ search_log' = <<"sql:start">>
    /\ UNCHANGED <<sql_rows, api_rows, file_rows, found, failed, not_search>>

\* search_sql_users returns its rows tagged sql (none when execute_sql
\* failed); search_api_users is awaited next.
SqlReturns(list) ==
    /\ search_pc = "in_sql"
    /\ sql_rows' = Tagged(list, "sql")
    /\ search_pc' = "in_api"
    /\ search_log' = search_log \o <<"sql:end", "api:start">>
    /\ UNCHANGED <<api_rows, file_rows, found, failed, not_search>>

\* search_api_users returns its rows tagged api (none when the call
\* failed); search_file_users is awaited next.
ApiReturns(list) ==
    /\ search_pc = "in_api"
    /\ api_rows' = Tagged(list, "api")
    /\ search_pc' = "in_file"
    /\ search_log' = search_log \o <<"api:end", "file:start">>
    /\ UNCHANGED <<sql_rows, file_rows, found, failed, not_search>>

\* search_file_users returns the rows of users.csv and then those of
\* users.xlsx, each tagged with its file; dedupe_rows gives the result.
FileReturns(csv, xlsx) ==
    /\ search_pc = "in_file"
    /\ Len(csv) + Len(xlsx) <= MaxSourceRows
    /\ file_rows' = Tagged(csv, "file:users.csv")
                        \o Tagged(xlsx, "file:users.xlsx")
    /\ found' = dedupe_rows(Gathered(sql_rows, api_rows, file_rows'))
    /\ search_pc' = "returned"
    /\ search_log' = search_log \o <<"file:end">>
    /\ UNCHANGED <<sql_rows, api_rows, failed, not_search>>

\* execute_sql raises (aiosqlite.connect, db.execute or fetchall: no table
\* users, a locked store, an id too large for an INTEGER): nothing between
\* it and the caller of search_everywhere_users catches the exception.
SqlRaises ==
    /\ search_pc = "in_sql"
    /\ failed' = failed \cup {"sql"}
    /\ search_pc' = "raised"
    /\ UNCHANGED <<search_log, sql_rows, api_rows, file_rows, found,
                   not_search>>

\* The REST upstream fails after all retries: query_api answers success
\* False and search_api_users returns no rows.
ApiFails ==
    /\ search_pc = "in_api"
    /\ failed' = failed \cup {"api"}
    /\ api_rows' = <<>>
    /\ search_pc' = "in_file"
    /\ search_log' = search_log \o <<"api:end", "file:start">>
    /\ UNCHANGED <<sql_rows, file_rows, found, not_search>>

\* The files are missing or unreadable: _read_users_file returns no rows
\* for each of them.
FilesFail ==
    /\ search_pc = "in_file"
    /\ failed' = failed \cup {"file"}
    /\ file_rows' = <<>>
    /\ found' = dedupe_rows(Gathered(sql_rows, api_rows, file_rows'))
    /\ search_pc' = "returned"
    /\ search_log' = search_log \o <<"file:end">>
    /\ UNCHANGED <<sql_rows, api_rows, not_search>>

SearchNext ==
    \/ SearchCall
    \/ \E list \in SourceLists : SqlReturns(list)
    \/ \E list \in SourceLists : ApiReturns(list)
    \/ \E csv \in SourceLists, xlsx \in SourceLists : FileReturns(csv, xlsx)
    \/ SqlRaises
    \/ ApiFails
    \/ FilesFail

SpecSearch == Init /\ [][SearchNext]_vars

(***************************************************************************)
(* seed(), run once and again                                              *)
(***************************************************************************)

SeedInit ==
    /\ TransportInit
    /\ UsersIdle
    /\ CompileIdle
    /\ PoolIdle
    /\ Registered
    /\ MockReset
    /\ ServerIdle
    /\ SearchIdle
    /\ DedupeIdle
    /\ MatchIdle
    /\ EngineIdle
    /\ ConnInit
    /\ SqlIdle
    /\ ParseIdle
    /\ db \in {UsedDb(u, p, o) : u \in 0..MaxPrior, p \in 0..MaxPrior,
                                  o \in 0..MaxPrior}
    /\ seeds = 0
    /\ db_first = db

Seed ==
    /\ seeds < MaxSeeds
    /\ db' = seed(db)
    /\ seeds' = seeds + 1
    /\ db_first' = IF seeds = 0 THEN db' ELSE db_first
    /\ UNCHANGED not_seed

SeedNext == Seed

SpecSeed == SeedInit /\ [][SeedNext]_vars

(***************************************************************************)
(* The handlers of the items of the mock service, after reset_store        *)
(***************************************************************************)

\* POST /items
create_item(name) ==
    /\ Len(assigned) < MaxItems
    /\ items' = items \cup {Item(next_id, name)}
    /\ next_id' = NextIdAfter(next_id)
    /\ assigned' = Append(assigned, next_id)
    /\ written' = [written EXCEPT ![next_id] = {Item(next_id, name)}]
    /\ api_resp' = ApiResponse("create", 0, 200, {Item(next_id, name)}, items)
    /\ UNCHANGED <<deleted, not_mock>>

\* GET /items
list_items ==
    /\ api_resp' = ApiResponse("list", 0, 200, items, items)
    /\ UNCHANGED <<items, next_id, assigned, written, deleted, not_mock>>

\* GET /items/{item_id}
get_item(id) ==
    /\ api_resp' = IF ItemsAt(items, id) = {}
                   THEN ApiResponse("get", id, 404, {}, items)
                   ELSE ApiResponse("get", id, 200, ItemsAt(items, id), items)
    /\ UNCHANGED <<items, next_id, assigned, written, deleted, not_mock>>

\* PUT /items/{item_id}
update_item(id, name) ==
    IF ItemsAt(items, id) = {}
    THEN /\ api_resp' = ApiResponse("put", id, 404, {}, items)
         /\ UNCHANGED <<items, next_id, assigned, written, deleted, not_mock>>
    ELSE /\ items' = (items \ ItemsAt(items, id)) \cup {Item(id, name)}
         /\ written' = [written EXCEPT ![id] = {Item(id, name)}]
         /\ api_resp' = ApiResponse("put", id, 200, {Item(id, name)}, items)
         /\ UNCHANGED <<next_id, assigned, deleted, not_mock>>

\* DELETE /items/{item_id}
delete_item(id) ==
    IF ItemsAt(items, id) = {}
    THEN /\ api_resp' = ApiResponse("delete", id, 404, {}, items)
         /\ UNCHANGED <<items, next_id, assigned, written, deleted, not_mock>>
    ELSE /\ items' = items \ ItemsAt(items, id)
         /\ deleted' = deleted \cup {id}
         /\ api_resp' = ApiResponse("delete", id, 200, {}, items)
         /\ UNCHANGED <<next_id, assigned, written, not_mock>>

MockNext ==
    \/ \E name \in ItemNames : create_item(name)
    \/ list_items
    \/ \E id \in ItemIds : get_item(id)
    \/ \E id \in ItemIds, name \in ItemNames : update_item(id, name)
    \/ \E id \in ItemIds : delete_item(id)

SpecMock == Init /\ [][MockNext]_vars

(***************************************************************************)
(* Properties of the RPC engine and of the transports                      *)
(***************************************************************************)

\* The direct call has returned for a JSON object envelope with an id.
EngineServedRequest ==
    /\ engine_pc = "done"
    /\ engine_in.kind = "obj"
    /\ engine_in.id # NoneV

\* C1: every JSON object envelope with a non-null id, whatever its method,
\* gets exactly one response from handle_request, carrying the request's id.
C1_EnvelopeClosure ==
    EngineServedRequest =>
        /\ ~engine_out.isnone
        /\ engine_out.out.id = engine_in.id

\* A connection whose loop is not serving a request.
Quiet(c) == inflight[c] = {}

\* How many responses written on c answer request number i.
Answers(c, i) == Cardinality({k \in DOMAIN sent[c] : sent[c][k] = i})

\* C2: every non-empty message that is no notification (unparseable text
\* and JSON that is no object included) has exactly one response written on
\* its connection once the connection has finished serving it.
C2_EveryMessageAnswered ==
    \A c \in Conns :
        Quiet(c) =>
            \A i \in DOMAIN recvd[c] :
                recvd[c][i] = "request" => Answers(c, i) = 1

\* C3: a notification (a JSON object without id) never has a response
\* written, whatever its method: handle_request returns None for it and no
\* written response answers it.
C3_NotificationsUnanswered ==
    \A c \in Conns :
        /\ \A k \in DOMAIN sent[c] : recvd[c][sent[c][k]] # "notification"
        /\ \A r \in inflight[c] :
              (r.stage = "replying" /\ MessageClass(r.text) = "notification")
                  => r.reply.isnone

\* A connection served a notification, silently, and then answered a request.
C3_Witness ==
    \E c \in Conns :
        /\ Quiet(c)
        /\ recvd[c] = <<"notification", "request">>
        /\ sent[c] = <<2>>

\* C4: for text that is not parseable JSON handle_request returns one
\* response with a null id and code -32700, and hands the text to no method
\* or tool handler.
C4_ParseError ==
    (engine_pc = "done" /\ engine_in.kind \in {"blank", "garbage"}) =>
        /\ ~engine_out.isnone
        /\ engine_out.out.id = NoneV
        /\ engine_out.out.member = "error"
        /\ engine_out.out.error.code = PARSE_ERROR
        /\ engine_out.dispatched = ""
        /\ engine_out.invoked = {}

\* The engine has answered unparseable text.
C4_Witness ==
    /\ engine_pc = "done"
    /\ engine_in = GarbageText
    /\ engine_out.out.error.code = PARSE_ERROR

\* C5: on one connection at most one request is being served at any moment,
\* it is the last one read, and the responses are written in the order in
\* which their requests were read.
C5_SequentialPerConnection ==
    \A c \in Conns :
        /\ Cardinality(inflight[c]) <= 1
        /\ \A r \in inflight[c] :
              /\ r.seq = Len(recvd[c])
              /\ \A k \in DOMAIN sent[c] : sent[c][k] < r.seq
        /\ \A j, k \in DOMAIN sent[c] : j < k => sent[c][j] < sent[c][k]

\* One connection has had a response written and serves its next request
\* while another connection is serving one too.
C5_Witness ==
    \E c, d \in Conns :
        /\ c # d
        /\ Len(sent[c]) >= 1
        /\ inflight[c] # {}
        /\ inflight[d] # {}

\* A tools/call whose params name no registered tool.
UnknownToolCall(e) ==
    /\ e.method = "tools/call"
    /\ e.params.shape # "nonmap"
    /\ ParamsOrEmpty(e.params).name \notin RegisteredTools

\* A method that is neither a protocol method nor a registered tool.
UnknownMethodCall(e) == e.method \notin ProtocolMethods \cup RegisteredTools

\* C6: a tools/call naming no registered tool, and a request whose method is
\* neither a protocol method nor a registered tool, get an error response
\* with code -32601 and the request's id, and no tool handler runs.
C6_MethodNotFound ==
    (EngineServedRequest
        /\ (UnknownToolCall(engine_in) \/ UnknownMethodCall(engine_in))) =>
        /\ ~engine_out.isnone
        /\ engine_out.out.member = "error"
        /\ engine_out.out.error.code = METHOD_NOT_FOUND
        /\ engine_out.out.id = engine_in.id
        /\ engine_out.invoked = {}

\* The engine has answered a tools/call for a tool that is not registered.
C6_Witness ==
    /\ EngineServedRequest
    /\ engine_in.method = "tools/call"
    /\ engine_in.params.name = UnknownTool
    /\ engine_out.out.error.code = METHOD_NOT_FOUND

\* C7: when a tool handler raises while a request with id i is served
\* (tools/call or the shorthand), the response is an error with code -32603
\* and id i, whose message holds the exception's message and whose data is
\* the trace.
C7_HandlerErrorWrapped ==
    (EngineServedRequest /\ engine_out.handler_exc # "") =>
        /\ ~engine_out.isnone
        /\ engine_out.out.id = engine_in.id
        /\ engine_out.out.member = "error"
        /\ engine_out.out.error.code = INTERNAL_ERROR
        /\ \E k \in DOMAIN engine_out.out.error.message :
              engine_out.out.error.message[k] = engine_out.handler_exc
        /\ Len(engine_out.out.error.data) > 0
        /\ engine_out.out.error.data[1] = "traceback"

\* The tools/call envelope the shorthand envelope e stands for.
AsToolsCall(e) ==
    Text("obj", e.id, "tools/call",
         Params("map", e.method, ParamsOrEmpty(e.params).bind, "absent", "empty"))

\* C8: a request whose method is a registered tool T with params A gets the
\* response of tools/call with params {name: T, arguments: A} and the same
\* id.
C8_ShorthandIsToolsCall ==
    (EngineServedRequest /\ engine_in.method \in RegisteredTools) =>
        engine_out.out = handle_request(AsToolsCall(engine_in)).out

\* The argument mapping an envelope hands to a tool handler.
ArgumentsOf(e) ==
    IF e.method = "tools/call"
    THEN (IF ParamsOrEmpty(e.params).arguments = "absent" THEN "empty"
          ELSE ParamsOrEmpty(e.params).arguments)
    ELSE ParamsOrEmpty(e.params).bind

\* C9: for every registered tool and every argument mapping the handler
\* returns an object with a boolean success member (and error.message when
\* it is false) and raises nothing to the engine.
C9_HandlersReturnStructured ==
    (EngineServedRequest /\ engine_out.invoked # {}
        /\ ArgumentsOf(engine_in) \in ArgMaps) =>
        /\ engine_out.handler_exc = ""
        /\ engine_out.out.member = "result"
        /\ engine_out.out.result.success \in {"true", "false"}
        /\ (engine_out.out.result.success = "false" => engine_out.out.result.errmsg)

(***************************************************************************)
(* Properties of the REST client                                           *)
(***************************************************************************)

\* The call that has just returned was a cached GET issued after an earlier
\* cached GET for the same path and parameters had fetched and stored the
\* body, within the TTL of that fetch and with no clearing of the cache in
\* between.
SecondGetWithinTtl ==
    /\ ret.op = "GET"
    /\ ret.use_cache
    /\ ret.status # "none"
    /\ ret.prev.valid
    /\ ret.issued < ret.prev.at + Ttl

\* C10: of two GETs on one client with the same path and parameters, caching
\* enabled, the second issued within the TTL of the first, the second returns
\* the body the first returned and makes no upstream call: the body the
\* first fetched is the one upstream call of the two.
C10_SecondGetFromCache ==
    SecondGetWithinTtl =>
        /\ ret.status = "ok"
        /\ ret.body = ret.prev.body
        /\ ret.attempts = 0
        /\ ret.fetched = 0

\* A second GET answered from the cache some time after the first, while
\* the upstream already serves another body.
C10_Witness ==
    /\ SecondGetWithinTtl
    /\ ret.issued > ret.prev.at
    /\ ret.body = ret.prev.body
    /\ upstream[ret.request[1]] # ret.body

\* Caller t waits for the lock with a cached GET while the body for its
\* path and parameters, fetched and stored by another GET since t missed
\* the cache, is in the cache and has not expired.
ServedWhileWaiting(t) ==
    /\ tpc[t] = "waiting"
    /\ call[t].use_cache
    /\ last_fetch[RequestOf(call[t].path, call[t].params)].valid
    /\ now < last_fetch[RequestOf(call[t].path, call[t].params)].at + Ttl

\* C11: of the cached GETs for one key issued concurrently while the key is
\* not cached, one makes the upstream call and stores the body; every other
\* one, when it gets the lock with that body in the cache, returns that body
\* and makes no upstream call of its own.
C11_SingleFlight ==
    [][\A t \in Callers :
          (ServedWhileWaiting(t) /\ tpc'[t] # "waiting") =>
              /\ tpc'[t] = "idle"
              /\ ret'.op = "GET"
              /\ ret'.status = "ok"
              /\ ret'.body =
                    last_fetch[RequestOf(call[t].path, call[t].params)].body
              /\ ret'.attempts = 0
              /\ ret'.fetched = 0]_vars

\* A cached GET issued while its key had not been fetched has returned a
\* body without an upstream attempt: the body another GET fetched meanwhile.
C11_Witness ==
    /\ ret.op = "GET"
    /\ ret.use_cache
    /\ ret.status = "ok"
    /\ ~ret.prev.valid
    /\ ret.attempts = 0
    /\ last_fetch[ret.request].valid
    /\ ret.body = last_fetch[ret.request].body

\* The sleeps after the first n failures of one call, in milliseconds.
SleepsAfter(n) == SubSeq(<<500, 1000, 2000>>, 1, n)

\* C12: a call (GET, POST, PUT or DELETE) makes upstream attempts until the
\* first that succeeds, three at most, and sleeps 0.5 s, 1.0 s and 2.0 s
\* after its first, second and third failure; it raises after exactly three
\* failed attempts, and once an attempt has succeeded it makes no other
\* attempt: its next step is its return.
C12_RetryPolicy ==
    /\ [](\A t \in Callers :
            /\ tries[t] <= 3
            /\ call[t].waited = SleepsAfter(tries[t])
            /\ tpc[t] = "attempt" => tries[t] < 3)
    /\ []((ret.status = "ok" /\ ret.fetched = 1) =>
            /\ ret.attempts \in 1..3
            /\ ret.waited = SleepsAfter(ret.attempts - 1))
    /\ [](ret.status = "error" =>
            /\ ret.attempts = 3
            /\ ret.fetched = 0
            /\ ret.waited = <<500, 1000, 2000>>)
    /\ [][\A t \in Callers :
            tpc[t] = "response" => tpc'[t] \in {"response", "idle"}]_vars

\* A POST, PUT or DELETE against an upstream that failed three times has
\* raised after its third sleep.
C12_Witness ==
    /\ ret.op \in {"POST", "PUT", "DELETE"}
    /\ ret.status = "error"
    /\ ret.attempts = 3
    /\ ret.waited = <<500, 1000, 2000>>

\* The step just taken returned from a cached GET whose body had been
\* fetched and stored, and then cleared by an invalidation, with no fetch
\* of it since, when the GET was issued.
GetAfterInvalidation ==
    /\ ret.op = "GET"
    /\ ret.use_cache
    /\ ret.status # "none"
    /\ ret.prev.cleared

\* C13: when a POST, PUT or DELETE with invalidate_cache set has been
\* performed, the whole cache of the client is empty; and the next GET for
\* a path that was cached before does not return the body cached then: it
\* makes an upstream call of its own, or gets the body a concurrent GET
\* fetched after it was issued.
C13_InvalidationClears ==
    /\ (ret.op \in {"POST", "PUT", "DELETE"} /\ ret.status = "ok"
            /\ ret.invalidate) =>
          \A k \in CacheKeys : ~cache[k].present
    /\ GetAfterInvalidation =>
          \/ ret.attempts >= 1
          \/ /\ last_fetch[ret.request].valid
             /\ last_fetch[ret.request].at >= ret.issued
             /\ ret.body = last_fetch[ret.request].body

\* A GET issued within the TTL of a body that a POST with invalidate_cache
\* has cleared fetched the new body from the upstream.
C13_Witness ==
    /\ GetAfterInvalidation
    /\ ret.issued < ret.prev.at + Ttl
    /\ ret.status = "ok"
    /\ ret.fetched = 1
    /\ ret.body # ret.prev.body

\* C14: a get, post, put or delete made after close() has completed fails
\* and returns no body, a GET whose key is still in the cache included.
C14_ClosedClientFails ==
    (ret.status # "none" /\ closed) =>
        /\ ret.status = "error"
        /\ ret.fetched = 0

\* C15: a GET is served from the cache only with a body that a GET with the
\* same credential, the per-call bearer token included, the same path and
\* the same parameters fetched and stored.
C15_CacheKeyedByCredential ==
    (ret.op = "GET" /\ ret.status = "ok" /\ ret.attempts = 0) =>
        /\ last_fetch[ret.request].valid
        /\ ret.body = last_fetch[ret.request].body
        /\ ret.token = last_fetch[ret.request].token

\* The cache key of the request of a returned call.
KeyOfRequest(r) ==
    CHOOSE k \in CacheKeys :
        \E q \in ParamChoices : RequestOf(r[1], q) = r /\ k = _cache_key(r[1], q)

\* The step just taken returned from a cached GET issued when the body last
\* stored for its path and parameters had outlived its TTL.
GetOfExpiredKey ==
    /\ ret.op = "GET"
    /\ ret.use_cache
    /\ ret.status # "none"
    /\ ret.prev.valid
    /\ ret.issued >= ret.prev.at + Ttl

\* C16: a body is returned from the cache only before its insertion time
\* plus the TTL; a GET for a key whose entry has expired goes upstream (or
\* gets the body a concurrent GET fetched after it was issued), and the body
\* it fetches is stored with a new lifetime.
C16_ExpiredEntriesAreMisses ==
    /\ (ret.op = "GET" /\ ret.status = "ok" /\ ret.attempts = 0) =>
          /\ last_fetch[ret.request].valid
          /\ ret.body = last_fetch[ret.request].body
          /\ now < last_fetch[ret.request].at + Ttl
    /\ GetOfExpiredKey =>
          \/ ret.attempts >= 1
          \/ last_fetch[ret.request].at >= ret.issued
    /\ (GetOfExpiredKey /\ ret.fetched = 1) =>
          cache[KeyOfRequest(ret.request)] =
              [present |-> TRUE, body |-> ret.body, expires |-> now + Ttl]

\* A GET for a key whose entry had expired fetched a body that differs from
\* the expired one and stored it.
C16_Witness ==
    /\ GetOfExpiredKey
    /\ ret.fetched = 1
    /\ ret.body # ret.prev.body
    /\ cache[KeyOfRequest(ret.request)].body = ret.body

\* The callers whose GET of the key is with the upstream: sent and not yet
\* answered to the caller.
InFlightGets(key) ==
    {t \in Callers :
        /\ tpc[t] \in {"attempt", "response"}
        /\ call[t].op = "GET"
        /\ _cache_key(call[t].path, call[t].params) = key}

\* C30: whatever the interleaving of the get calls on one client, cached or
\* not, at most one upstream GET per cache key is in flight at any moment.
C30_OneUpstreamGetPerKey ==
    \A key \in CacheKeys : Cardinality(InFlightGets(key)) <= 1

\* A GET is in flight while another get of the same key, not cached, waits
\* for the lock.
C30_Witness ==
    \E t \in Callers, w \in Callers :
        /\ tpc[t] = "attempt" /\ call[t].op = "GET"
        /\ tpc[w] = "waiting" /\ ~call[w].use_cache
        /\ _cache_key(call[t].path, call[t].params)
               = _cache_key(call[w].path, call[w].params)

(***************************************************************************)
(* Properties of the SQL executor                                          *)
(***************************************************************************)

\* The first word of a text, in lower case (none for an empty or blank text).
FirstKeyword(text) ==
    IF text.words = <<>> THEN <<>> ELSE Lower(text.words[1])

\* C17: execute_sql returns the structured error for the empty string and
\* for every text whose first keyword is not SELECT, and no call changes the
\* rows of the store.
C17_ReadOnlyExecutor ==
    sql_out.kind # "none" =>
        /\ sql_store = sql_in.store
        /\ (SqlChars(sql_in.text) = <<>> \/ FirstKeyword(sql_in.text) # W_select)
              => sql_out.kind = "error"

\* C18: an accepted query with no LIMIT clause returns at most as many rows
\* as the limit passed to execute_sql.
C18_ImplicitLimit ==
    (sql_out.kind = "ok" /\ ~HasLimitClause(sql_in.text.words)) =>
        sql_out.rows <= sql_in.limit

(***************************************************************************)
(* Properties of the query parser                                          *)
(***************************************************************************)

C20_ParserDeterministic ==
    parses >= 2 => dnf = first_dnf

(***************************************************************************)
(* Properties of the compiler and of the evaluator                         *)
(***************************************************************************)

\* C21: for every DNF the parser produces and every row, the compiled WHERE
\* selects the row in the store exactly when row_matches_dnf matches it.
C21_CompilerAgreesWithEvaluator ==
    row # NoRow => (selected <=> matched)

(***************************************************************************)
(* Properties of dedupe_rows                                               *)
(***************************************************************************)

\* C22: dedupe_rows(rows ++ rows) equals dedupe_rows(rows): the same rows in
\* the same order, with the same fields and the same sources.
C22_DedupeIdempotent ==
    dedupe_done => deduped_twice = deduped

\* Rows of several sources were merged under one key, with a field filled.
C22_Witness ==
    /\ dedupe_done
    /\ Len(rows) = 3
    /\ Len(deduped) = 1
    /\ Len(deduped[1].sources) >= 2
    /\ rows[1].region = ""
    /\ deduped[1].region = "EU"

\* The tags of the rows that have the key, in the order of the rows.
RECURSIVE TagsOfKey(_, _)
TagsOfKey(rs, key) ==
    IF rs = <<>> THEN <<>>
    ELSE IF DedupKey(Head(rs)) = key
    THEN <<Head(rs).source>> \o TagsOfKey(Tail(rs), key)
    ELSE TagsOfKey(Tail(rs), key)

\* A sequence without the repetitions of its elements.
RECURSIVE FirstOccurrences(_)
FirstOccurrences(s) ==
    IF s = <<>> THEN <<>>
    ELSE LET before == FirstOccurrences(SubSeq(s, 1, Len(s) - 1))
             x == s[Len(s)]
         IN  IF \E i \in DOMAIN before : before[i] = x THEN before
             ELSE Append(before, x)

\* C23: the sources of every row dedupe_rows returns are the distinct origin
\* tags of the input rows of its dedup key, each once, in the order in which
\* they first occur.
C23_SourcesPreserved ==
    dedupe_done =>
        \A i \in DOMAIN deduped :
            deduped[i].sources =
                FirstOccurrences(TagsOfKey(rows, DedupKey(deduped[i])))

\* Three rows of one key tagged api, sql, api gave the sources api, sql.
C23_Witness ==
    /\ dedupe_done
    /\ Len(rows) = 3
    /\ rows[1].source = "api" /\ rows[2].source = "sql"
    /\ rows[3].source = "api"
    /\ Len(deduped) = 1
    /\ deduped[1].sources = <<"api", "sql">>

(***************************************************************************)
(* Properties of search_everywhere_users                                   *)
(***************************************************************************)

\* The dedup keys of the rows of a list, in the order of the rows.
KeysOf(rs) == [i \in DOMAIN rs |-> DedupKey(rs[i])]

\* C24: the sub-searches run one after the other, relational, REST, file,
\* none starting before the one before it has ended, and the result lists
\* the relational rows, then the REST rows, then the file rows, a merged row
\* at the place of the first row of its dedup key.
C24_SequentialSourcesInOrder ==
    /\ \E n \in 0..6 :
          search_log = SubSeq(<<"sql:start", "sql:end", "api:start", "api:end",
                               "file:start", "file:end">>, 1, n)
    /\ search_pc = "returned" =>
          KeysOf(found) =
              FirstOccurrences(KeysOf(sql_rows \o api_rows \o file_rows))

\* A search returned rows of the three sources, one of them merged.
C24_Witness ==
    /\ search_pc = "returned"
    /\ sql_rows # <<>> /\ api_rows # <<>> /\ file_rows # <<>>
    /\ Len(found) >= 2
    /\ Len(found) < Len(sql_rows) + Len(api_rows) + Len(file_rows)
    /\ found[1].sources[1] = "sql"

(***************************************************************************)
(* Properties of the socket server                                         *)
(***************************************************************************)

\* C25: the registry of connections holds exactly the connections whose
\* handler loop runs: a connection enters it when its handler starts and
\* leaves it when the handler ends, whatever ends it.
C25_RegistryIsRunningHandlers ==
    connections = {c \in SocketConns : pc[c] = "open"}

\* One handler has ended on a failed send or a close and left the registry
\* while another one runs.
C25_Witness ==
    \E c \in SocketConns, d \in SocketConns :
        /\ pc[c] = "ended"
        /\ Len(recvd[c]) > Len(sent[c])
        /\ pc[d] = "open"
        /\ connections = {d}

\* Once stop() is called no handler starts and the registry does not grow.
NoAcceptAfterStop ==
    (server \in {"closing", "stopped"}) =>
        /\ connections' \subseteq connections
        /\ \A c \in SocketConns : (pc'[c] = "open") => (pc[c] = "open")

\* The server changes state only from idle to started, from started to
\* closing and from closing to stopped.
LifecycleStep ==
    (server' # server) =>
        (<<server, server'>> \in {<<"idle", "started">>,
                                   <<"started", "closing">>,
                                   <<"closing", "stopped">>})

\* C26: the server goes from idle to started to stopped; once stop() is
\* called no connection is accepted, and stop() returns only when every
\* handler has completed, with the registry empty.
C26_GracefulStop ==
    /\ [](server = "stopped" =>
            /\ connections = {}
            /\ \A c \in SocketConns : pc[c] # "open")
    /\ [][NoAcceptAfterStop /\ LifecycleStep]_vars

\* stop() returned after a handler that was running when it was called
\* had answered a request and ended.
C26_Witness ==
    /\ server = "stopped"
    /\ \E c \in SocketConns : pc[c] = "ended" /\ Len(recvd[c]) >= 1

(***************************************************************************)
(* Properties of seed()                                                    *)
(***************************************************************************)

\* C27: seed() run twice leaves the tables as seed() run once left them,
\* rows and ids, and every order refers to a user and a product that exist.
C27_SeedIdempotent ==
    seeds >= 2 =>
        /\ db.users = db_first.users
        /\ db.products = db_first.products
        /\ db.orders = db_first.orders
        /\ \A o \in db.orders :
              /\ \E u \in db.users : u.id = o.user_id
              /\ \E p \in db.products : p.id = o.product_id

(***************************************************************************)
(* Properties of the mock REST service                                     *)
(***************************************************************************)

\* The ids created and not deleted.
LiveIds == {assigned[i] : i \in DOMAIN assigned} \ deleted

\* C29: after reset_store, created items get the ids 1, 2, 3, ... in the
\* order of creation and no id is given twice; GET of a created item gives
\* the item last created or put under its id and the list holds it; GET,
\* PUT and DELETE of an id deleted before the request give 404 and leave the
\* store as it was.
C29_ItemsStore ==
    /\ assigned = [i \in 1..Len(assigned) |-> i]
    /\ (api_resp.op = "get" /\ api_resp.id \in LiveIds) =>
          (api_resp.status = 200 /\ api_resp.body = written[api_resp.id])
    /\ api_resp.op = "list" =>
          api_resp.body = UNION {written[id] : id \in LiveIds}
    /\ (api_resp.op \in {"get", "put", "delete"}
           /\ api_resp.id \in deleted
           /\ ItemsAt(api_resp.before, api_resp.id) = {}) =>
          (api_resp.status = 404 /\ items = api_resp.before)

\* An item was created after a deletion, then a deleted id was asked for.
C29_Witness ==
    /\ Len(assigned) = 3
    /\ deleted = {1, 2}
    /\ api_resp.op = "get"
    /\ api_resp.id = 1
    /\ api_resp.status = 404

(***************************************************************************)
(* Properties of the tool registry                                         *)
(***************************************************************************)

\* The tools of the tool catalogue.
ToolCatalogue ==
    {"list_sources", "query_data", "query_api", "transform_data",
     "integrate_data", "export_data", "analyze_schema", "suggest_queries",
     "check_data_quality", "list_files", "parse_file", "search_users"}

\* C28: the registered tools are the same in every state, whatever was
\* handled, they include the tools of the catalogue, and tools/list returns
\* a descriptor for each registered tool and for nothing else.
C28_RegistryFixed ==
    /\ tools = RegisteredTools
    /\ ToolCatalogue \subseteq tools
    /\ (EngineServedRequest /\ engine_in.method = "tools/list") =>
          /\ ~engine_out.isnone
          /\ engine_out.out.result.tag = "tools/list"
          /\ engine_out.out.result.payload = tools

\* tools/list was answered.
C28_Witness ==
    /\ EngineServedRequest
    /\ engine_in.method = "tools/list"
    /\ Cardinality(engine_out.out.result.payload) = 12


(***************************************************************************)
(* Properties of the REST client: the lock and the cache                   *)
(***************************************************************************)

\* C31: the cache of the client changes only in steps taken while the lock
\* of the client is held, be it the insertion of a fetched body or the
\* clearing on invalidation.
C31_CacheMutatedUnderLock == [][cache' # cache => lock # NoneV]_vars


\* The lock is held by a caller whose GET is running.
LockHeldByRunningGet ==
    lock # NoneV =>
        /\ tpc[lock] \in {"attempt", "response", "sleep"}
        /\ call[lock].op = "GET"

\* The GET of t that held the lock ends in this step without a body.
GetFails(t) ==
    /\ lock = t
    /\ tpc'[t] = "idle"
    /\ ret'.status \in {"error", "cancelled"}

\* A GET that fails or is cancelled leaves the cache as it was, and the key
\* of a caching GET is not in it: the next GET of the key goes upstream.
FailedGetKeepsCache ==
    \A t \in Callers :
        GetFails(t) =>
            /\ cache' = cache
            /\ call[t].use_cache =>
                  ~InCache(cache', _cache_key(call[t].path, call[t].params),
                           now')

\* C32: the lock is released when the GET that holds it ends, with a body,
\* after the last failed attempt or cancelled, so a GET that waits for the
\* lock gets it in the end; a GET that fails leaves the cache unchanged and
\* the next GET of its key calls the upstream again.
C32_LockAlwaysReleased ==
    /\ []LockHeldByRunningGet
    /\ [][FailedGetKeepsCache]_vars
    /\ \A t \in Callers : (tpc[t] = "waiting") ~> (tpc[t] # "waiting")
    /\ \A t \in Callers : (lock = t) ~> (lock # t)

\* A GET waits for the lock while the GET that holds it has failed its last
\* attempt.
C32_Witness ==
    \E t \in Callers, w \in Callers :
        /\ tpc[w] = "waiting"
        /\ lock = t
        /\ ret.status = "none"
        /\ call[t].prev.valid = FALSE
        /\ tries[t] = MaxAttempts


\* A POST, PUT or DELETE with invalidate_cache that made version v of the
\* upstream has just returned: query_api has cleared the cache.
ClearedAfter(v) ==
    /\ ret.op \in {"POST", "PUT", "DELETE"}
    /\ ret.status = "ok"
    /\ ret.invalidate
    /\ ret.body = v

\* No body in the cache was fetched before version v of the upstream.
NothingOlderThan(v) ==
    \A key \in CacheKeys : cache[key].present => cache[key].body >= v

\* C33: once a mutating call with invalidate_cache has cleared the cache,
\* the cache never holds a body that the upstream returned before the
\* mutation was applied: no step taken from the state in which the call has
\* returned puts such a body in the cache.
C33_NoStaleBodyAfterInvalidation ==
    [][\A v \in 1..MaxVersion :
          ClearedAfter(v) => (NothingOlderThan(v) /\ NothingOlderThan(v)')]_vars


(***************************************************************************)
(* Properties of the pool of REST clients                                  *)
(***************************************************************************)

\* C34: get_connector returns the same client for two calls exactly when
\* both the base URL and the credential of the calls are equal: one client
\* per pair, and no client shared by two pairs.
C34_OneClientPerPair ==
    \A g \in handed, h \in handed :
        (g.id = h.id) <=> (g.base_url = h.base_url /\ g.api_key = h.api_key)


(***************************************************************************)
(* The parser against the reference parser                                 *)
(***************************************************************************)

\* The reference splits at every word sep (a split on \bsep\b) and keeps
\* the pieces that have a word.
RECURSIVE WordSplitRec(_, _, _, _, _)
WordSplitRec(words, sep, i, cur, acc) ==
    IF i > Len(words)
    THEN IF cur = <<>> THEN acc ELSE Append(acc, cur)
    ELSE IF words[i] = sep
    THEN WordSplitRec(words, sep, i + 1, <<>>,
                      IF cur = <<>> THEN acc ELSE Append(acc, cur))
    ELSE WordSplitRec(words, sep, i + 1, Append(cur, words[i]), acc)

WordSplit(words, sep) == WordSplitRec(words, sep, 1, <<>>, <<>>)

\* The reference parser: the disjuncts between the words "or", in each the
\* conjuncts between the words "and", each conjunct classified by the first
\* recogniser that matches; the fallback clause when there is no clause.
ReferenceParse(text, day) ==
    LET q == Normalize(text)
        disjuncts == WordSplit(q, "or")
        clause(d) ==
            LET conjuncts == WordSplit(d, "and")
            IN  [j \in DOMAIN conjuncts |-> TokenCond(conjuncts[j], day)]
        clauses ==
            NonEmpty([i \in DOMAIN disjuncts |-> clause(disjuncts[i])])
    IN  IF clauses = <<>> THEN << <<Cond("any", "like", q)>> >> ELSE clauses

\* C35: parse_query_to_dnf gives the DNF of the reference parser: a clause
\* for each disjunct between two "or", in it a condition for each conjunct
\* between two "and", the condition of the first recogniser that matches.
C35_ParserIsReference ==
    parses >= 1 => dnf = ReferenceParse(query, Todays[today])


(***************************************************************************)
(* Properties of the compiler                                              *)
(***************************************************************************)

\* The pieces of a text that are the piece p.
Occurrences(text, p) == Cardinality({i \in DOMAIN text : text[i] = p})

\* The parentheses open before piece i of a text.
Depth(text, i) ==
    Cardinality({k \in 1..(i - 1) : text[k] = "("})
        - Cardinality({k \in 1..(i - 1) : text[k] = ")"})

\* The places where a group opens outside every parenthesis.
Groups(text) == {i \in DOMAIN text : text[i] = "(" /\ Depth(text, i) = 0}

\* The pieces p outside every parenthesis.
Outside(text, p) ==
    Cardinality({i \in DOMAIN text : text[i] = p /\ Depth(text, i) = 0})

\* The " AND " directly inside the k-th group.
AndsOf(text, k) ==
    Cardinality({i \in DOMAIN text :
                    /\ text[i] = " AND "
                    /\ Depth(text, i) = 1
                    /\ Cardinality({g \in Groups(text) : g < i}) = k})

\* The parameters of one condition: the two bounds of a range, the pattern
\* %v% five times for any-like, once for another like, the value otherwise.
ExpectedParams(c) ==
    LET pattern == <<"%">> \o ValueChars(c.value) \o <<"%">>
    IN  IF c.op = "range" THEN <<c.value[1], c.value[2]>>
        ELSE IF c.field = "any" THEN [k \in 1..5 |-> pattern]
        ELSE IF c.op = "like" THEN <<pattern>>
        ELSE <<ValueChars(c.value)>>

\* The parameters of the conditions in the order of the clauses and, in a
\* clause, of its conditions.
RECURSIVE Traversal(_, _, _)
Traversal(d, i, j) ==
    IF i > Len(d) THEN <<>>
    ELSE IF j > Len(d[i]) THEN Traversal(d, i + 1, 1)
    ELSE ExpectedParams(d[i][j]) \o Traversal(d, i, j + 1)

\* C36: the WHERE text has one parenthesised group per clause, the groups
\* joined by OR and the conditions of a group by AND; it has as many
\* placeholders as there are parameters; the parameters are those of the
\* conditions in traversal order; a DNF of no clause gives 1=1 and no
\* parameters.
C36_WhereAndParams ==
    compiled =>
        /\ Occurrences(where_sql, "?") = Len(where_params)
        /\ where_params = Traversal(cdnf, 1, 1)
        /\ cdnf = <<>> => (where_sql = <<"1=1">> /\ where_params = <<>>)
        /\ cdnf # <<>> =>
              /\ Depth(where_sql, Len(where_sql) + 1) = 0
              /\ Cardinality(Groups(where_sql)) = Len(cdnf)
              /\ Outside(where_sql, " OR ") = Len(cdnf) - 1
              /\ Outside(where_sql, "(") + Outside(where_sql, " OR ")
                    = Cardinality({i \in DOMAIN where_sql :
                                      Depth(where_sql, i) = 0})
              /\ \A k \in DOMAIN cdnf :
                    AndsOf(where_sql, k) = Len(cdnf[k]) - 1

\* A DNF of two clauses was compiled, one of them a range and an any-like.
C36_Witness ==
    /\ compiled
    /\ Len(cdnf) = 2
    /\ Len(cdnf[1]) = 2
    /\ cdnf[1][1].op = "range"
    /\ cdnf[1][2].field = "any"
    /\ Len(where_params) = 8
    /\ Occurrences(where_sql, "?") = 8


(***************************************************************************)
(* dedupe_rows against the rule of the keys and of the fields              *)
(***************************************************************************)

\* A null: None, or the NaN of a data frame.
Null(v) == v \in {NoneV, "NaN"}

\* The values a later row replaces.
Absent(v) == Null(v) \/ v \in {"", "nan"}

\* The key of a row by the rule: its email in lower case when it has one,
\* else its name and its id.
RuleKey(r) ==
    IF Null(r.email) \/ r.email = "" THEN <<NameKey(r.name), r.id>>
    ELSE <<EmailKey(r.email)>>

\* The rows of a list that come first under their key, in their order.
FirstUnderKey(list) ==
    SelectSeq([i \in DOMAIN list |-> [at |-> i, r |-> list[i]]],
              LAMBDA e : \A j \in 1..(e.at - 1) :
                            RuleKey(list[j]) # RuleKey(e.r))

\* The value of a field by the rule: that of the first row under the key,
\* or, when that is absent, the first later one under the key that is not.
RuleValue(list, first, f) ==
    LET later == {j \in (first + 1)..Len(list) :
                     /\ RuleKey(list[j]) = RuleKey(list[first])
                     /\ ~Absent(list[j][f])}
    IN  IF Absent(list[first][f]) /\ later # {}
        THEN list[CHOOSE j \in later : \A k \in later : j <= k][f]
        ELSE list[first][f]

\* C37: dedupe_rows gives one row for each key of its input, in the order
\* in which the keys first occur, and each field of the row is the value of
\* the first row under the key or, when that is null, empty or "nan", the
\* first later value under the key that is none of these.
C37_OneRowPerKey ==
    dedupe_done =>
        /\ Len(deduped) = Len(FirstUnderKey(rows))
        /\ \A k \in DOMAIN deduped :
              \A f \in {"id", "name", "email", "region"} :
                 deduped[k][f] = RuleValue(rows, FirstUnderKey(rows)[k].at, f)

(***************************************************************************)
(* Properties of the searches through the cache of the client              *)
(***************************************************************************)

\* C38: whatever searches were made, the body of /users in the cache of the
\* client is the body the upstream returned, and a cached GET /users
\* returns it, with no field added or changed.
C38_CachedBodyUntouched ==
    /\ users_cache.present => users_cache.body = upstream_users
    /\ users_ret.op = "get" => users_ret.body = upstream_users


\* C39: when a sub-search fails, the relational one, the REST one or the
\* one of the files, the search goes on to its end and returns the rows of
\* the other sub-searches.
C39_SearchSurvivesFailure ==
    failed # {} =>
        /\ search_pc # "raised"
        /\ search_pc = "returned" =>
              found = dedupe_rows(Gathered(sql_rows, api_rows, file_rows))


(***************************************************************************)
(* The connections of the socket transport and the shared REST client      *)
(***************************************************************************)

\* The request of the handler w can go no further until the request that
\* another handler has in progress is over: w waits for the lock that the
\* other holds, though its GET is for another key and has nothing to share
\* with the GET of the other.
WaitsForAnother(w) ==
    /\ tpc[w] = "waiting"
    /\ lock \in Callers \ {w}
    /\ _cache_key(call[w].path, call[w].params)
          # _cache_key(call[lock].path, call[lock].params)

\* C40: the connections are independent: the request of one connection is
\* handled and answered without waiting for the request that another
\* connection has in progress to finish.
C40_ConnectionsIndependent == \A w \in Callers : ~WaitsForAnother(w)

====
